---- MODULE Spec2Model ----
(***************************************************************************)
(* Gomoku move-evaluation and threat-analysis engine                       *)
(* (src/src/worker/gomoku-ai.ts) and the callers that own the board.       *)
(*                                                                         *)
(* The board is the 15x15 grid board[y][x] of the source.  Every engine    *)
(* entry point is modelled as an operator that threads the board through   *)
(* the trial placements of the code (place, test, restore) and returns the *)
(* board it leaves behind together with its result; a loop of the code is  *)
(* a fold of its body over the cells in row-major order that stops at the  *)
(* first `return`.                                                         *)
(*                                                                         *)
(* Scores are JavaScript numbers in the source.  Pattern scores are        *)
(* integers; the centre bonus max(0, 100 - 5*sqrt(d2)) is kept to the      *)
(* hundredth, so a position score is an integer number of hundredths and   *)
(* the weighted sums built from it are integers in the unit stated there.  *)
(***************************************************************************)
EXTENDS Integers, Sequences, FiniteSets, TLC

VARIABLES
  board,     \* the grid owned by the caller, board[y][x]
  gameOver,  \* the caller's game-over flag (set when a placed stone wins)
  last,      \* the caller's last placed stone [x, y, player], or NoMove
  placed,    \* how many stones were placed since the start
  op,        \* the engine entry point that returned last, "none" if none
  pre,       \* the board as it was when that entry point was called
  ret,       \* what that entry point returned
  game       \* the rest of GameController: turn, winner, history, settings,
             \* move requests in flight, the last thinking notification

vars == <<board, gameOver, last, placed, op, pre, ret, game>>

\* ------------------------------------------------------------ constants

EMPTY == 0
BLACK == 1
WHITE == 2
BOARD_SIZE == 15

Coord == 0..(BOARD_SIZE - 1)
NumCells == BOARD_SIZE * BOARD_SIZE

\* the k-th cell in row-major order (y outer, x inner), as the loops visit them
CellX(k) == k % BOARD_SIZE
CellY(k) == k \div BOARD_SIZE

InBounds(x, y) == x >= 0 /\ x < BOARD_SIZE /\ y >= 0 /\ y < BOARD_SIZE

EmptyBoard == [y \in Coord |-> [x \in Coord |-> EMPTY]]

\* board[y][x] = v
SetCell(b, x, y, v) == [b EXCEPT ![y][x] = v]

directions == << <<1, 0>>, <<0, 1>>, <<1, 1>>, <<1, -1>> >>

Opponent(player) == IF player = 1 THEN 2 ELSE 1

\* -------------------------------------------------------------- checkWin

\* a counting loop of checkWin and of detectFourInARow: the stones of
\* player at steps i..max from (x,y) along (dx,dy), stopping at the first
\* cell that is off the board or holds anything else
RECURSIVE CountRun(_, _, _, _, _, _, _, _)
CountRun(b, x, y, dx, dy, player, i, max) ==
  IF i > max THEN 0
  ELSE IF InBounds(x + dx * i, y + dy * i) /\ b[y + dy * i][x + dx * i] = player
       THEN 1 + CountRun(b, x, y, dx, dy, player, i + 1, max)
       ELSE 0

\* AxisCount with both side loops one step short
AxisCountShort(b, x, y, dx, dy, player) ==
  1 + CountRun(b, x, y, dx, dy, player, 1, 3)
    + CountRun(b, x, y, -dx, -dy, player, 1, 3)

\* count of one axis: 1 for the cell itself, then forward, then backward
AxisCount(b, x, y, dx, dy, player) ==
  1 + CountRun(b, x, y, dx, dy, player, 1, 4)
    + CountRun(b, x, y, -dx, -dy, player, 1, 4)

checkWin(b, x, y, player) ==
  \E d \in 1..Len(directions) :
     AxisCount(b, x, y, directions[d][1], directions[d][2], player) >= 5

\* ----------------------------------------------------------- hasNeighbor

NEIGHBOR_RANGE == 2

hasNeighbor(b, x, y) ==
  \E dy \in -NEIGHBOR_RANGE..NEIGHBOR_RANGE, dx \in -NEIGHBOR_RANGE..NEIGHBOR_RANGE :
     /\ ~(dx = 0 /\ dy = 0)
     /\ InBounds(x + dx, y + dy)
     /\ b[y + dy][x + dx] # 0

\* ------------------------------------------------- pattern library (4.2)

\* the table with the first template entered a second time at another score
SHAPE_SCORES_Repeated == <<
  [score |-> 50,       pattern |-> <<0, 1, 1, 0, 0>>],
  [score |-> 50,       pattern |-> <<0, 0, 1, 1, 0>>],
  [score |-> 200,      pattern |-> <<1, 1, 0, 1, 0>>],
  [score |-> 500,      pattern |-> <<0, 0, 1, 1, 1>>],
  [score |-> 500,      pattern |-> <<1, 1, 1, 0, 0>>],
  [score |-> 5000,     pattern |-> <<0, 1, 1, 1, 0>>],
  [score |-> 5000,     pattern |-> <<0, 1, 0, 1, 1, 0>>],
  [score |-> 5000,     pattern |-> <<0, 1, 1, 0, 1, 0>>],
  [score |-> 5000,     pattern |-> <<1, 1, 1, 0, 1>>],
  [score |-> 5000,     pattern |-> <<1, 1, 0, 1, 1>>],
  [score |-> 5000,     pattern |-> <<1, 0, 1, 1, 1>>],
  [score |-> 5000,     pattern |-> <<1, 1, 1, 1, 0>>],
  [score |-> 5000,     pattern |-> <<0, 1, 1, 1, 1>>],
  [score |-> 50000,    pattern |-> <<0, 1, 1, 1, 1, 0>>],
  [score |-> 99999999, pattern |-> <<1, 1, 1, 1, 1>> ],
  [score |-> 200,      pattern |-> <<0, 1, 1, 0, 0>>] >>

SHAPE_SCORES == <<
  [score |-> 50,       pattern |-> <<0, 1, 1, 0, 0>>],
  [score |-> 50,       pattern |-> <<0, 0, 1, 1, 0>>],
  [score |-> 200,      pattern |-> <<1, 1, 0, 1, 0>>],
  [score |-> 500,      pattern |-> <<0, 0, 1, 1, 1>>],
  [score |-> 500,      pattern |-> <<1, 1, 1, 0, 0>>],
  [score |-> 5000,     pattern |-> <<0, 1, 1, 1, 0>>],
  [score |-> 5000,     pattern |-> <<0, 1, 0, 1, 1, 0>>],
  [score |-> 5000,     pattern |-> <<0, 1, 1, 0, 1, 0>>],
  [score |-> 5000,     pattern |-> <<1, 1, 1, 0, 1>>],
  [score |-> 5000,     pattern |-> <<1, 1, 0, 1, 1>>],
  [score |-> 5000,     pattern |-> <<1, 0, 1, 1, 1>>],
  [score |-> 5000,     pattern |-> <<1, 1, 1, 1, 0>>],
  [score |-> 5000,     pattern |-> <<0, 1, 1, 1, 1>>],
  [score |-> 50000,    pattern |-> <<0, 1, 1, 1, 1, 0>>],
  [score |-> 99999999, pattern |-> <<1, 1, 1, 1, 1>> ] >>

matchPattern(linePattern, shapePattern) ==
  /\ Len(linePattern) = Len(shapePattern)
  /\ \A i \in 1..Len(linePattern) :
        /\ ~(shapePattern[i] = 2 /\ linePattern[i] # 2)
        /\ ~(shapePattern[i] = 1 /\ linePattern[i] # 1)
        /\ ~(shapePattern[i] = 0 /\ linePattern[i] # 0)

\* the inner `for ... of SHAPE_SCORES` loops: the score of the first entry
\* (table order) of the window's length that matches, 0 when none does
FirstShapeScore(window) ==
  LET hits == {j \in 1..Len(SHAPE_SCORES) :
                 /\ Len(SHAPE_SCORES[j].pattern) = Len(window)
                 /\ matchPattern(window, SHAPE_SCORES[j].pattern)}
  IN IF hits = {} THEN 0
     ELSE SHAPE_SCORES[CHOOSE j \in hits : \A k \in hits : j <= k].score

\* FirstShapeScore tabulated over every window of 5 and of 6 cells
ShapeScore5 == [w \in [1..5 -> 0..2] |-> FirstShapeScore(w)]
ShapeScore6 == [w \in [1..6 -> 0..2] |-> FirstShapeScore(w)]

\* how player sees the cell at offset i from (x,y) along (dx,dy): 1 own
\* stone, 2 opponent stone or off the board, 0 empty
EncodedCell(b, x, y, dx, dy, player, i) ==
  IF InBounds(x + dx * i, y + dy * i)
  THEN IF b[y + dy * i][x + dx * i] = player THEN 1
       ELSE IF b[y + dy * i][x + dx * i] = Opponent(player) THEN 2
       ELSE 0
  ELSE 2

\* the line of the 11 cells at offsets -5..5
EncodedLine(b, x, y, dx, dy, player) ==
  << EncodedCell(b, x, y, dx, dy, player, -5), EncodedCell(b, x, y, dx, dy, player, -4),
     EncodedCell(b, x, y, dx, dy, player, -3), EncodedCell(b, x, y, dx, dy, player, -2),
     EncodedCell(b, x, y, dx, dy, player, -1), EncodedCell(b, x, y, dx, dy, player, 0),
     EncodedCell(b, x, y, dx, dy, player, 1), EncodedCell(b, x, y, dx, dy, player, 2),
     EncodedCell(b, x, y, dx, dy, player, 3), EncodedCell(b, x, y, dx, dy, player, 4),
     EncodedCell(b, x, y, dx, dy, player, 5) >>

\* the window loop adding the 5-cell window only where the 6-cell window
\* adds nothing
RECURSIVE WindowScoresExclusive(_, _)
WindowScoresExclusive(line, i) ==
  IF i >= Len(line) - 4 THEN 0
  ELSE (IF i < Len(line) - 5 /\ ShapeScore6[SubSeq(line, i + 1, i + 6)] > 0
        THEN ShapeScore6[SubSeq(line, i + 1, i + 6)]
        ELSE ShapeScore5[SubSeq(line, i + 1, i + 5)])
       + WindowScoresExclusive(line, i + 1)

\* the window loop of evaluateShapeInDirection from offset i on: at each
\* offset the 6-cell window (while one fits) and the 5-cell window both add
RECURSIVE WindowScores(_, _)
WindowScores(line, i) ==
  IF i >= Len(line) - 4 THEN 0
  ELSE (IF i < Len(line) - 5 THEN ShapeScore6[SubSeq(line, i + 1, i + 6)] ELSE 0)
       + ShapeScore5[SubSeq(line, i + 1, i + 5)]
       + WindowScores(line, i + 1)

evaluateShapeInDirection(b, x, y, dx, dy, player) ==
  WindowScores(EncodedLine(b, x, y, dx, dy, player), 0)

\* extractLine of the enhanced engine: the cells at offsets -start..start,
\* start = floor(length / 2), around (x,y) along (dx,dy): 1 at the centre,
\* the value the board holds elsewhere, 2 off the board
extractLine(b, x, y, dx, dy, length) ==
  [k \in 1..(2 * (length \div 2) + 1) |->
     IF InBounds(x + dx * (k - 1 - length \div 2), y + dy * (k - 1 - length \div 2))
     THEN IF k - 1 - length \div 2 = 0 THEN 1
          ELSE b[y + dy * (k - 1 - length \div 2)][x + dx * (k - 1 - length \div 2)]
     ELSE 2]

\* the pattern isLiveThreePattern, isFourPattern, canBridgeStones and
\* hasThreatPotential make of a line for player before they test it
LinePattern(line, player) ==
  [k \in 1..Len(line) |->
     IF line[k] = player THEN 1 ELSE IF line[k] = 0 THEN 0 ELSE 2]

\* floor(500 * sqrt(n)) for the squared distances to the centre, 0..98:
\* distanceToCenter * 5, in hundredths
FiveSqrt ==
  [n \in 0..(2 * (BOARD_SIZE \div 2) * (BOARD_SIZE \div 2)) |->
     LET whole == CHOOSE r \in 0..BOARD_SIZE : r * r <= n /\ n < (r + 1) * (r + 1)
     IN CHOOSE m \in (500 * whole)..(500 * whole + 499) :
           m * m <= 250000 * n /\ 250000 * n < (m + 1) * (m + 1)]

\* Math.max(0, 100 - distanceToCenter * 5), in hundredths
positionScore(x, y) ==
  LET centerX == BOARD_SIZE \div 2
      centerY == BOARD_SIZE \div 2
      d2 == (x - centerX) * (x - centerX) + (y - centerY) * (y - centerY)
      s == 10000 - FiveSqrt[d2]
  IN IF s > 0 THEN s ELSE 0

\* the evaluator without the second diagonal
evaluatePositionAdvancedThreeAxes(b, x, y, player) ==
  100 * ( evaluateShapeInDirection(b, x, y, 1, 0, player)
        + evaluateShapeInDirection(b, x, y, 0, 1, player)
        + evaluateShapeInDirection(b, x, y, 1, 1, player) )
  + positionScore(x, y)

\* in hundredths
evaluatePositionAdvanced(b, x, y, player) ==
  100 * ( evaluateShapeInDirection(b, x, y, 1, 0, player)
        + evaluateShapeInDirection(b, x, y, 0, 1, player)
        + evaluateShapeInDirection(b, x, y, 1, 1, player)
        + evaluateShapeInDirection(b, x, y, 1, -1, player) )
  + positionScore(x, y)

\* ------------------------------------------------------------ findThreats

\* PushThreat without the test of the two scores
PushThreatUntested(threats, x, y, aiScore, humanScore) ==
  Append(threats, [x |-> x, y |-> y,
                   score |-> IF 3 * aiScore > 2 * humanScore
                             THEN 3 * aiScore ELSE 2 * humanScore])

\* the `if (aiScore > 10000 || humanScore > 8000) threats.push(...)` of
\* findThreats (scores in hundredths); the pushed score is
\* Math.max(aiScore * 1.5, humanScore), kept in two-hundredths
PushThreat(threats, x, y, aiScore, humanScore) ==
  IF aiScore > 1000000 \/ humanScore > 800000
  THEN Append(threats, [x |-> x, y |-> y,
                        score |-> IF 3 * aiScore > 2 * humanScore
                                  THEN 3 * aiScore ELSE 2 * humanScore])
  ELSE threats

\* body of the cell loop of findThreats
FindThreatsStep(st, k, humanPlayer, aiPlayer) ==
  LET x == CellX(k)
      y == CellY(k)
  IN IF st.board[y][x] # 0 THEN st
     ELSE LET b1 == SetCell(st.board, x, y, aiPlayer)
              b2 == SetCell(b1, x, y, humanPlayer)
          IN [done |-> FALSE,
              board |-> SetCell(b2, x, y, 0),
              threats |-> PushThreat(st.threats, x, y,
                                     evaluatePositionAdvanced(b1, x, y, aiPlayer),
                                     evaluatePositionAdvanced(b2, x, y, humanPlayer))]

RECURSIVE FindThreatsLoop(_, _, _, _, _)
FindThreatsLoop(st, lo, hi, humanPlayer, aiPlayer) ==
  IF lo = hi THEN FindThreatsStep(st, lo, humanPlayer, aiPlayer)
  ELSE LET mid == (lo + hi) \div 2
           s1 == FindThreatsLoop(st, lo, mid, humanPlayer, aiPlayer)
       IN IF s1.done THEN s1
          ELSE FindThreatsLoop(s1, mid + 1, hi, humanPlayer, aiPlayer)

\* Array.prototype.sort with (a, b) => b.score - a.score: descending, and
\* stable (elements of equal score keep their order)
\* (the place of an element is one more than the number of elements of
\* higher score and of elements of equal score before it)
SortByScoreDesc(seq) ==
  IF Len(seq) <= 1 THEN seq
  ELSE CHOOSE sorted \in
         UNION { { SubSeq([k \in 1..Len(s) |-> s[CHOOSE i \in 1..Len(s) : place[i] = k]],
                          1, Len(s)) :
                     place \in
                       { SubSeq([i \in 1..Len(s) |->
                                   1 + Cardinality({j \in 1..Len(s) :
                                                      \/ s[j].score > s[i].score
                                                      \/ j < i /\ s[j].score = s[i].score})],
                                1, Len(s)) } } :
                 s \in {SubSeq(seq, 1, Len(seq))} } :
         TRUE

\* .map(t => ({ x: t.x, y: t.y }))
Positions(seq) == [i \in 1..Len(seq) |-> [x |-> seq[i].x, y |-> seq[i].y]]

\* the sort and map that end findThreats, on the state the cell loop left
FindThreatsReturn(st) ==
  [threats |-> Positions(SortByScoreDesc(st.threats)), board |-> st.board]

\* [threats: the cells in descending score order, board: the board left behind]
findThreats(b, humanPlayer, aiPlayer) ==
  FindThreatsReturn(FindThreatsLoop([done |-> FALSE, board |-> b, threats |-> <<>>],
                                    0, NumCells - 1, humanPlayer, aiPlayer))

\* ---------------------------------------------------- calculateMediumMove

\* WinScanStep returning from inside the trial without clearing the cell
WinScanStepNoRestore(st, k, player) ==
  LET x == CellX(k)
      y == CellY(k)
  IN IF st.board[y][x] = EMPTY
     THEN LET b1 == SetCell(st.board, x, y, player)
          IN IF checkWin(b1, x, y, player)
             THEN [done |-> TRUE, board |-> b1, x |-> x, y |-> y]
             ELSE [done |-> FALSE, board |-> SetCell(b1, x, y, EMPTY), x |-> -1, y |-> -1]
     ELSE st

\* body of the two forced-move loops of calculateMediumMove: try player's
\* stone on an empty cell, restore it, return the cell when it wins
WinScanStep(st, k, player) ==
  LET x == CellX(k)
      y == CellY(k)
  IN IF st.board[y][x] = EMPTY
     THEN LET b1 == SetCell(st.board, x, y, player)
          IN IF checkWin(b1, x, y, player)
             THEN [done |-> TRUE, board |-> SetCell(b1, x, y, EMPTY), x |-> x, y |-> y]
             ELSE [done |-> FALSE, board |-> SetCell(b1, x, y, EMPTY), x |-> -1, y |-> -1]
     ELSE st

RECURSIVE WinScanLoop(_, _, _, _)
WinScanLoop(st, lo, hi, player) ==
  IF lo = hi THEN WinScanStep(st, lo, player)
  ELSE LET mid == (lo + hi) \div 2
           s1 == WinScanLoop(st, lo, mid, player)
       IN IF s1.done THEN s1 ELSE WinScanLoop(s1, mid + 1, hi, player)

\* WinScan trying the other colour's stones
WinScanOpponent(b, player) ==
  WinScanLoop([done |-> FALSE, board |-> b, x |-> -1, y |-> -1], 0, NumCells - 1,
              Opponent(player))

WinScan(b, player) ==
  WinScanLoop([done |-> FALSE, board |-> b, x |-> -1, y |-> -1], 0, NumCells - 1, player)

\* Candidates without the test that the cell is empty
CandidatesAnyCell(b) ==
  SelectSeq([i \in 1..NumCells |-> i - 1],
            LAMBDA k : hasNeighbor(b, CellX(k), CellY(k)))

\* the empty cells with a neighbour, in row-major order (as cell numbers)
Candidates(b) ==
  SelectSeq([i \in 1..NumCells |-> i - 1],
            LAMBDA k : b[CellY(k)][CellX(k)] = EMPTY /\ hasNeighbor(b, CellX(k), CellY(k)))

\* KeepBest that never takes the candidate
KeepBestNever(st, b, x, y, score) == [st EXCEPT !.board = b]

\* KeepBest replacing the best cell also on an equal score
KeepBestOrEqual(st, b, x, y, score) ==
  IF ~st.hasBest \/ score >= st.bestScore
  THEN [done |-> FALSE, board |-> b, hasBest |-> TRUE, bestScore |-> score,
        x |-> x, y |-> y]
  ELSE [st EXCEPT !.board = b]

\* the `if (score > bestScore)` of the evaluation loop; bestScore starts at
\* -Infinity (hasBest = FALSE)
KeepBest(st, b, x, y, score) ==
  IF ~st.hasBest \/ score > st.bestScore
  THEN [done |-> FALSE, board |-> b, hasBest |-> TRUE, bestScore |-> score,
        x |-> x, y |-> y]
  ELSE [st EXCEPT !.board = b]

\* body of the evaluation loop over the candidates; score is
\* selfScore * 1.5 - opponentScore * 1.2, kept in thousandths
EvaluateStep(st, cands, i) ==
  LET x == CellX(cands[i])
      y == CellY(cands[i])
      b1 == SetCell(st.board, x, y, WHITE)
      b2 == SetCell(b1, x, y, BLACK)
  IN KeepBest(st, SetCell(b2, x, y, EMPTY), x, y,
              15 * evaluatePositionAdvanced(b1, x, y, WHITE)
              - 12 * evaluatePositionAdvanced(b2, x, y, BLACK))

RECURSIVE EvaluateLoop(_, _, _, _)
EvaluateLoop(st, cands, lo, hi) ==
  IF lo = hi THEN EvaluateStep(st, cands, lo)
  ELSE LET mid == (lo + hi) \div 2
           s1 == EvaluateLoop(st, cands, lo, mid)
       IN IF s1.done THEN s1 ELSE EvaluateLoop(s1, cands, mid + 1, hi)

\* A result of calculateMediumMove is [cells: the cells the call may return
\* (one cell, except in the Math.random() fallback, where it is any
\* candidate), board: the board left behind, phase: the return statement
\* taken].
MediumResult(x, y, b, phase) ==
  [cells |-> <<[x |-> x, y |-> y]>>, board |-> b, phase |-> phase]

\* `return bestPosition || candidates[Math.floor(Math.random() * length)]`
MediumPick(best, candidates) ==
  IF best.hasBest THEN MediumResult(best.x, best.y, best.board, "best")
  ELSE [cells |-> [i \in 1..Len(candidates) |->
                     [x |-> CellX(candidates[i]), y |-> CellY(candidates[i])]],
        board |-> best.board, phase |-> "random"]

\* from the collection of the candidates on (lines 77-111)
MediumHeuristic(b, candidates) ==
  IF Len(candidates) = 0
  THEN MediumResult(BOARD_SIZE \div 2, BOARD_SIZE \div 2, b, "center")
  ELSE MediumPick(EvaluateLoop([done |-> FALSE, board |-> b, hasBest |-> FALSE,
                                bestScore |-> 0, x |-> -1, y |-> -1],
                               candidates, 1, Len(candidates)),
                  candidates)

\* from the return of findThreats on (lines 71-111)
MediumAfterThreats(ft) ==
  IF Len(ft.threats) > 0
  THEN MediumResult(ft.threats[1].x, ft.threats[1].y, ft.board, "threat")
  ELSE MediumHeuristic(ft.board, Candidates(ft.board))

\* from the end of the blocking loop on (lines 56-111)
MediumAfterBlock(block) ==
  IF block.done THEN MediumResult(block.x, block.y, block.board, "block")
  ELSE MediumAfterThreats(findThreats(block.board, BLACK, WHITE))

\* from the end of the winning loop on (lines 41-111)
MediumAfterWin(win) ==
  IF win.done THEN MediumResult(win.x, win.y, win.board, "win")
  ELSE MediumAfterBlock(WinScan(win.board, BLACK))

calculateMediumMove(b) == MediumAfterWin(WinScan(b, WHITE))

\* ------------------------------------------- helpers of analyzeBoard

countStones(b) ==
  LET black == Cardinality({k \in 0..(NumCells - 1) : b[CellY(k)][CellX(k)] = BLACK})
      white == Cardinality({k \in 0..(NumCells - 1) : b[CellY(k)][CellX(k)] = WHITE})
  IN [black |-> black, white |-> white, total |-> black + white]

\* body of the cell loop of findWinningThreats
FindWinningThreatsStep(st, k) ==
  LET x == CellX(k)
      y == CellY(k)
  IN IF st.board[y][x] # EMPTY THEN st
     ELSE LET b1 == SetCell(st.board, x, y, WHITE)
              b2 == SetCell(b1, x, y, BLACK)
          IN [done |-> FALSE,
              board |-> SetCell(b2, x, y, EMPTY),
              white |-> IF checkWin(b1, x, y, WHITE)
                        THEN Append(st.white, [x |-> x, y |-> y]) ELSE st.white,
              black |-> IF checkWin(b2, x, y, BLACK)
                        THEN Append(st.black, [x |-> x, y |-> y]) ELSE st.black]

RECURSIVE FindWinningThreatsLoop(_, _, _)
FindWinningThreatsLoop(st, lo, hi) ==
  IF lo = hi THEN FindWinningThreatsStep(st, lo)
  ELSE LET mid == (lo + hi) \div 2
           s1 == FindWinningThreatsLoop(st, lo, mid)
       IN IF s1.done THEN s1 ELSE FindWinningThreatsLoop(s1, mid + 1, hi)

\* [white, black: the winning cells of each side in row-major order,
\* board: the board left behind]
findWinningThreats(b) ==
  FindWinningThreatsLoop([done |-> FALSE, board |-> b, white |-> <<>>, black |-> <<>>],
                         0, NumCells - 1)

\* the sum of evaluatePositionAdvanced over the stones of player among the
\* cells lo..hi (one of the two accumulators of evaluateBoardSituation)
RECURSIVE SituationScore(_, _, _, _)
SituationScore(b, player, lo, hi) ==
  IF lo = hi
  THEN IF b[CellY(lo)][CellX(lo)] = player
       THEN evaluatePositionAdvanced(b, CellX(lo), CellY(lo), player) ELSE 0
  ELSE SituationScore(b, player, lo, (lo + hi) \div 2)
       + SituationScore(b, player, (lo + hi) \div 2 + 1, hi)

\* the two scores, in hundredths (the analysis text is not modelled)
evaluateBoardSituation(b) ==
  [whiteScore |-> SituationScore(b, WHITE, 0, NumCells - 1),
   blackScore |-> SituationScore(b, BLACK, 0, NumCells - 1)]

\* arraysEqual(line.slice(i, i + pattern.length), pattern) for some i
HasWindow(line, pattern) ==
  \E i \in 0..(Len(line) - Len(pattern)) :
     SubSeq(line, i + 1, i + Len(pattern)) = pattern

\* what one pass of directionLoop pushes for a line: the three pattern
\* loops in their order, each ending the pass at its first match
DirectionThreat(line) ==
  IF HasWindow(line, <<0, 1, 1, 1, 1, 0>>) THEN "liveFour"
  ELSE IF HasWindow(line, <<0, 1, 1, 1, 0>>) THEN "liveThree"
  ELSE IF \E i \in 0..(Len(line) - 6) :
            \/ SubSeq(line, i + 1, i + 6) = <<0, 1, 0, 1, 1, 0>>
            \/ SubSeq(line, i + 1, i + 6) = <<0, 1, 1, 0, 1, 0>>
       THEN "liveThree"
  ELSE "none"

PushThreatCell(st, x, y, kind) ==
  IF kind = "liveFour"
  THEN [st EXCEPT !.liveFour = Append(@, [x |-> x, y |-> y])]
  ELSE IF kind = "liveThree"
  THEN [st EXCEPT !.liveThree = Append(@, [x |-> x, y |-> y])]
  ELSE st

\* directionLoop from direction d on, with player's trial stone on (x,y) of
\* st.board; the line is the one evaluateShapeInDirection extracts
RECURSIVE DirectionLoop(_, _, _, _, _)
DirectionLoop(st, x, y, player, d) ==
  IF d > Len(directions) THEN st
  ELSE DirectionLoop(
         PushThreatCell(st, x, y,
           DirectionThreat(EncodedLine(st.board, x, y, directions[d][1],
                                       directions[d][2], player))),
         x, y, player, d + 1)

\* body of the cell loop of detectThreats: place, scan the directions,
\* restore
DetectThreatsStep(st, k, player) ==
  LET x == CellX(k)
      y == CellY(k)
  IN IF st.board[y][x] # EMPTY THEN st
     ELSE [DirectionLoop([st EXCEPT !.board = SetCell(@, x, y, player)], x, y, player, 1)
             EXCEPT !.board = SetCell(@, x, y, EMPTY)]

RECURSIVE DetectThreatsLoop(_, _, _, _)
DetectThreatsLoop(st, lo, hi, player) ==
  IF lo = hi THEN DetectThreatsStep(st, lo, player)
  ELSE LET mid == (lo + hi) \div 2
           s1 == DetectThreatsLoop(st, lo, mid, player)
       IN IF s1.done THEN s1 ELSE DetectThreatsLoop(s1, mid + 1, hi, player)

\* positions.filter((pos, index, self) => index === self.findIndex(same x, y))
RECURSIVE RemoveDuplicatesFrom(_, _)
RemoveDuplicatesFrom(positions, i) ==
  IF i > Len(positions) THEN <<>>
  ELSE (IF \E j \in 1..(i - 1) : /\ positions[j].x = positions[i].x
                                 /\ positions[j].y = positions[i].y
        THEN <<>> ELSE <<positions[i]>>)
       \o RemoveDuplicatesFrom(positions, i + 1)

removeDuplicates(positions) == RemoveDuplicatesFrom(positions, 1)

\* the two removeDuplicates calls that end detectThreats
DetectThreatsReturn(st) ==
  [liveFour |-> removeDuplicates(st.liveFour),
   liveThree |-> removeDuplicates(st.liveThree),
   board |-> st.board]

\* [liveFour, liveThree: the cells in row-major order, board: the board
\* left behind]
detectThreats(b, player) ==
  DetectThreatsReturn(
    DetectThreatsLoop([done |-> FALSE, board |-> b, liveFour |-> <<>>, liveThree |-> <<>>],
                      0, NumCells - 1, player))

\* the test detectFourInARow makes for the stone on (x,y) and one
\* direction: a count of exactly four, and both (x+4dx, y+4dy) and
\* (x-dx, y-dy) on the board and empty
FourWithOpenEnds(b, x, y, dx, dy) ==
  /\ 1 + CountRun(b, x, y, dx, dy, b[y][x], 1, 3)
       + CountRun(b, x, y, -dx, -dy, b[y][x], 1, 3) = 4
  /\ InBounds(x + dx * 4, y + dy * 4)
  /\ b[y + dy * 4][x + dx * 4] = EMPTY
  /\ InBounds(x - dx, y - dy)
  /\ b[y - dy][x - dx] = EMPTY

detectFourInARow(b) ==
  [black |-> \E k \in 0..(NumCells - 1), d \in 1..Len(directions) :
                /\ b[CellY(k)][CellX(k)] = BLACK
                /\ FourWithOpenEnds(b, CellX(k), CellY(k), directions[d][1], directions[d][2]),
   white |-> \E k \in 0..(NumCells - 1), d \in 1..Len(directions) :
                /\ b[CellY(k)][CellX(k)] = WHITE
                /\ FourWithOpenEnds(b, CellX(k), CellY(k), directions[d][1], directions[d][2])]

\* scores of findBestMoves and of the moves analyzeBoard puts in front, in
\* thousandths
WIN_MOVE_SCORE == 100000 * 1000
BLOCK_MOVE_SCORE == 90000 * 1000
CENTER_MOVE_SCORE == 1 * 1000
URGENT_WIN_SCORE == 1000000 * 1000
URGENT_BLOCK_SCORE == 900000 * 1000

Move(x, y, score) == [x |-> x, y |-> y, score |-> score]

\* the part of the loop body of findBestMoves after the two checkWin
\* tests, on the restored board b (lines 820-853); the score is
\* whiteScore * 1.5 - blackScore * 1.2 in thousandths
EvaluateMoveStep(st, b, x, y) ==
  IF ~hasNeighbor(b, x, y) THEN [st EXCEPT !.board = b]
  ELSE LET b1 == SetCell(b, x, y, WHITE)
           b2 == SetCell(b1, x, y, BLACK)
       IN [done |-> FALSE,
           board |-> SetCell(b2, x, y, EMPTY),
           moves |-> Append(st.moves,
                       Move(x, y, 15 * evaluatePositionAdvanced(b1, x, y, WHITE)
                                  - 12 * evaluatePositionAdvanced(b2, x, y, BLACK)))]

\* body of the cell loop of findBestMoves (the reason texts are not modelled)
FindBestMovesStep(st, k) ==
  LET x == CellX(k)
      y == CellY(k)
      b1 == SetCell(st.board, x, y, WHITE)
      b2 == SetCell(b1, x, y, BLACK)
  IN IF st.board[y][x] # EMPTY THEN st
     ELSE IF checkWin(b1, x, y, WHITE)
     THEN [done |-> FALSE, board |-> SetCell(b1, x, y, EMPTY),
           moves |-> Append(st.moves, Move(x, y, WIN_MOVE_SCORE))]
     ELSE IF checkWin(b2, x, y, BLACK)
     THEN [done |-> FALSE, board |-> SetCell(b2, x, y, EMPTY),
           moves |-> Append(st.moves, Move(x, y, BLOCK_MOVE_SCORE))]
     ELSE EvaluateMoveStep(st, SetCell(b2, x, y, EMPTY), x, y)

RECURSIVE FindBestMovesLoop(_, _, _)
FindBestMovesLoop(st, lo, hi) ==
  IF lo = hi THEN FindBestMovesStep(st, lo)
  ELSE LET mid == (lo + hi) \div 2
           s1 == FindBestMovesLoop(st, lo, mid)
       IN IF s1.done THEN s1 ELSE FindBestMovesLoop(s1, mid + 1, hi)

\* moves.slice(0, count)
Slice(seq, count) == SubSeq(seq, 1, IF Len(seq) < count THEN Len(seq) ELSE count)

\* the centre fallback, the sort and the slice that end findBestMoves
FindBestMovesReturn(st, count) ==
  [moves |-> IF Len(st.moves) = 0
             THEN Slice(<<Move(BOARD_SIZE \div 2, BOARD_SIZE \div 2, CENTER_MOVE_SCORE)>>,
                        count)
             ELSE Slice(SortByScoreDesc(st.moves), count),
   board |-> st.board]

\* [moves: at most count moves in descending score order, board: the board
\* left behind]
findBestMoves(b, count) ==
  FindBestMovesReturn(
    FindBestMovesLoop([done |-> FALSE, board |-> b, moves |-> <<>>], 0, NumCells - 1),
    count)

\* ------------------------------------------------ canBlockMultipleThreats

\* ThreatLoop that also tests the threat on the cell of White's trial stone
ThreatLoopNoSkip(b, threats, x, y, i) ==
  [board |-> b,
   canBlockAll |-> \A j \in i..Len(threats) :
                      ~checkWin(SetCell(b, threats[j].x, threats[j].y, BLACK),
                                threats[j].x, threats[j].y, BLACK)]

\* ThreatLoop that stops after the first threat of the list
ThreatLoopFirstOnly(b, threats, x, y, i) ==
  [board |-> b,
   canBlockAll |-> \/ threats[1].x = x /\ threats[1].y = y
                   \/ ~checkWin(SetCell(b, threats[1].x, threats[1].y, BLACK),
                                threats[1].x, threats[1].y, BLACK)]

\* the loop over the threats from the i-th on, with White's trial stone on
\* (x,y) of b: [board: the board left behind, canBlockAll]
RECURSIVE ThreatLoop(_, _, _, _, _)
ThreatLoop(b, threats, x, y, i) ==
  IF i > Len(threats) THEN [board |-> b, canBlockAll |-> TRUE]
  ELSE IF threats[i].x = x /\ threats[i].y = y THEN ThreatLoop(b, threats, x, y, i + 1)
  ELSE IF checkWin(SetCell(b, threats[i].x, threats[i].y, BLACK),
                   threats[i].x, threats[i].y, BLACK)
  THEN [board |-> SetCell(SetCell(b, threats[i].x, threats[i].y, BLACK),
                          threats[i].x, threats[i].y, EMPTY),
        canBlockAll |-> FALSE]
  ELSE ThreatLoop(SetCell(SetCell(b, threats[i].x, threats[i].y, BLACK),
                          threats[i].x, threats[i].y, EMPTY),
                  threats, x, y, i + 1)

\* the cell loop never returning true
CanBlockRestoreNever(t, x, y) ==
  [done |-> FALSE, board |-> SetCell(t.board, x, y, EMPTY)]

\* the end of the cell loop body: restore (x,y), return true when the
\* threat loop left canBlockAll set
CanBlockRestore(t, x, y) ==
  [done |-> t.canBlockAll, board |-> SetCell(t.board, x, y, EMPTY)]

\* body of the cell loop of canBlockMultipleThreats
CanBlockStep(st, k, threats) ==
  IF st.board[CellY(k)][CellX(k)] # EMPTY THEN st
  ELSE CanBlockRestore(
         ThreatLoop(SetCell(st.board, CellX(k), CellY(k), WHITE), threats,
                    CellX(k), CellY(k), 1),
         CellX(k), CellY(k))

RECURSIVE CanBlockLoop(_, _, _, _)
CanBlockLoop(st, lo, hi, threats) ==
  IF lo = hi THEN CanBlockStep(st, lo, threats)
  ELSE LET mid == (lo + hi) \div 2
           s1 == CanBlockLoop(st, lo, mid, threats)
       IN IF s1.done THEN s1 ELSE CanBlockLoop(s1, mid + 1, hi, threats)

\* what follows the cell loop: true when it returned true, else the
\* all-threats-on-one-cell test
CanBlockReturn(st, threats) ==
  [result |-> \/ st.done
              \/ /\ Len(threats) > 1
                 /\ \A i \in 1..Len(threats) : /\ threats[i].x = threats[1].x
                                               /\ threats[i].y = threats[1].y,
   board |-> st.board]

\* [result: the boolean returned, board: the board left behind]
canBlockMultipleThreats(b, threats) ==
  IF Len(threats) <= 1 THEN [result |-> TRUE, board |-> b]
  ELSE CanBlockReturn(CanBlockLoop([done |-> FALSE, board |-> b], 0, NumCells - 1, threats),
                      threats)

\* the end of the copy of canBlockMultipleThreats that has no test after
\* the cell loop: true when the loop returned true
CanBlockLoopReturn(st) == [result |-> st.done, board |-> st.board]

\* canBlockMultipleThreats as the second copy of the engine has it
canBlockMultipleThreatsVariant(b, threats) ==
  IF Len(threats) <= 1 THEN [result |-> TRUE, board |-> b]
  ELSE CanBlockLoopReturn(
         CanBlockLoop([done |-> FALSE, board |-> b], 0, NumCells - 1, threats))

\* ------------------------------------------------------------ analyzeBoard

\* The locals of analyzeBoard while it runs.  The texts (analysis,
\* urgencyReason, surrenderReason) are kept as the name of the statement
\* that wrote them last; analysisText is not modelled.
AnalysisStart(b) ==
  [board |-> b,
   urgencyLevel |-> "normal", urgencyReason |-> "",
   shouldSurrender |-> FALSE, surrenderReason |-> "",
   total |-> countStones(b).total,
   white |-> <<>>, black |-> <<>>,
   liveFour |-> <<>>, liveThree |-> <<>>,
   topMoves |-> <<>>]

\* const winningThreats = findWinningThreats(board)
WithWinningThreats(a, wt) ==
  [a EXCEPT !.board = wt.board, !.white = wt.white, !.black = wt.black]

\* lines 378-383
AnalyzeFourInARow(a, fourInARow) ==
  IF fourInARow.black
  THEN [a EXCEPT !.shouldSurrender = TRUE, !.surrenderReason = "black four in a row"]
  ELSE a

\* `if (!canBlockAll) { shouldSurrender = true; ... }` for the result cb of
\* canBlockMultipleThreats
SurrenderUnless(a, cb, reason) ==
  IF cb.result THEN [a EXCEPT !.board = cb.board]
  ELSE [a EXCEPT !.board = cb.board, !.shouldSurrender = TRUE, !.surrenderReason = reason]

\* lines 386-406
AnalyzeWinningThreats(a) ==
  IF Len(a.white) > 0
  THEN [a EXCEPT !.urgencyLevel = "critical", !.urgencyReason = "white can win"]
  ELSE IF Len(a.black) > 0
  THEN IF Len(a.black) >= 2
       THEN SurrenderUnless(
              [a EXCEPT !.urgencyLevel = "critical", !.urgencyReason = "black can win"],
              canBlockMultipleThreats(a.board, a.black),
              "several black wins")
       ELSE [a EXCEPT !.urgencyLevel = "critical", !.urgencyReason = "black can win"]
  ELSE a

\* lines 409-417, scores in hundredths
AnalyzeSituation(a, situationAnalysis) ==
  IF \/ (situationAnalysis.whiteScore < -50000 * 100 /\ a.total > 20)
     \/ (situationAnalysis.blackScore > 80000 * 100 /\ a.total > 15)
  THEN [a EXCEPT !.shouldSurrender = TRUE, !.surrenderReason = "hopeless"]
  ELSE a

\* const blackThreats = detectThreats(board, BLACK)
WithThreats(a, threats) ==
  [a EXCEPT !.board = threats.board, !.liveFour = threats.liveFour,
            !.liveThree = threats.liveThree]

\* lines 421-442, a.liveFour and a.liveThree being blackThreats
AnalyzeBlackThreats(a) ==
  IF Len(a.liveFour) > 0
  THEN [a EXCEPT !.urgencyLevel = "critical", !.urgencyReason = "black live four"]
  ELSE IF Len(a.liveThree) > 1
  THEN SurrenderUnless(
         [a EXCEPT !.urgencyLevel = "critical", !.urgencyReason = "black double three"],
         canBlockMultipleThreats(a.board, a.liveThree),
         "several black live threes")
  ELSE IF Len(a.liveThree) > 0
  THEN [a EXCEPT !.urgencyLevel = "high", !.urgencyReason = "black live three"]
  ELSE a

\* lines 446-455, a.liveFour and a.liveThree being whiteThreats
AnalyzeWhiteThreats(a) ==
  IF Len(a.liveFour) > 0
  THEN [a EXCEPT !.urgencyLevel = "critical", !.urgencyReason = "white live four"]
  ELSE IF Len(a.liveThree) > 1
  THEN [a EXCEPT !.urgencyLevel = "critical", !.urgencyReason = "white double three"]
  ELSE a

\* winningThreats.<side>.map(move => ({ x, y, score, reason }))
UrgentMoves(cells, score) ==
  [i \in 1..Len(cells) |-> Move(cells[i].x, cells[i].y, score)]

\* AnalyzeBestMoves without the filter of lines 482-484
AnalyzeBestMovesUnfiltered(a, best) ==
  [a EXCEPT
     !.board = best.board,
     !.topMoves =
       IF a.urgencyLevel = "critical"
       THEN IF Len(a.white) > 0 THEN UrgentMoves(a.white, URGENT_WIN_SCORE) \o best.moves
            ELSE IF Len(a.black) > 0
                 THEN UrgentMoves(a.black, URGENT_BLOCK_SCORE) \o best.moves
            ELSE best.moves
       ELSE best.moves]

\* lines 458-485, best being the result of findBestMoves(board, 5); the
\* filter of lines 482-484 is the one removeDuplicates applies
AnalyzeBestMoves(a, best) ==
  [a EXCEPT
     !.board = best.board,
     !.topMoves =
       IF a.urgencyLevel = "critical"
       THEN removeDuplicates(
              IF Len(a.white) > 0 THEN UrgentMoves(a.white, URGENT_WIN_SCORE) \o best.moves
              ELSE IF Len(a.black) > 0
                   THEN UrgentMoves(a.black, URGENT_BLOCK_SCORE) \o best.moves
              ELSE best.moves)
       ELSE best.moves]

\* lines 372-406
AnalyzeWinning(a) ==
  AnalyzeWinningThreats(AnalyzeFourInARow(a, detectFourInARow(a.board)))

\* lines 409-442
AnalyzeBlack(a) ==
  AnalyzeBlackThreats(
    WithThreats(AnalyzeSituation(a, evaluateBoardSituation(a.board)),
                detectThreats(a.board, BLACK)))

\* lines 445-455
AnalyzeWhite(a) == AnalyzeWhiteThreats(WithThreats(a, detectThreats(a.board, WHITE)))

\* lines 458-485
AnalyzeMoves(a) == AnalyzeBestMoves(a, findBestMoves(a.board, 5))

\* the object analyzeBoard returns, and the board it leaves behind
AnalyzeReturn(a) ==
  [topMoves |-> a.topMoves,
   urgencyLevel |-> a.urgencyLevel, urgencyReason |-> a.urgencyReason,
   shouldSurrender |-> a.shouldSurrender, surrenderReason |-> a.surrenderReason,
   board |-> a.board]

analyzeBoard(b) ==
  AnalyzeReturn(
    AnalyzeMoves(
      AnalyzeWhite(
        AnalyzeBlack(
          AnalyzeWinning(
            WithWinningThreats(AnalysisStart(b), findWinningThreats(b)))))))

\* ---------------------------------------------------- analyzeControlledArea

\* an analyzeControlledArea that counts a cell at equal distances for White
analyzeControlledAreaTiesToWhite(b) ==
  LET Infinity == 2 * BOARD_SIZE * BOARD_SIZE
      Squares(x, y, stoneType) ==
        {(CellX(k) - x) * (CellX(k) - x) + (CellY(k) - y) * (CellY(k) - y) :
           k \in {c \in 0..(NumCells - 1) : b[CellY(c)][CellX(c)] = stoneType}}
      findNearestStone(x, y, stoneType) ==
        IF Squares(x, y, stoneType) = {} THEN Infinity
        ELSE CHOOSE d \in Squares(x, y, stoneType) :
               \A e \in Squares(x, y, stoneType) : d <= e
  IN [white |-> Cardinality({k \in 0..(NumCells - 1) :
                   /\ b[CellY(k)][CellX(k)] = EMPTY
                   /\ findNearestStone(CellX(k), CellY(k), WHITE)
                        <= findNearestStone(CellX(k), CellY(k), BLACK)}),
      black |-> Cardinality({k \in 0..(NumCells - 1) :
                   /\ b[CellY(k)][CellX(k)] = EMPTY
                   /\ findNearestStone(CellX(k), CellY(k), BLACK)
                        < findNearestStone(CellX(k), CellY(k), WHITE)})]

\* analyzeControlledArea with findNearestStone: the empty cells nearer to
\* a white stone than to any black one, and the converse.  Distances are
\* compared by their squares (Math.sqrt keeps the order of the integers up
\* to 392), and Infinity, the distance when the colour has no stone, is a
\* number above every squared distance.
analyzeControlledArea(b) ==
  LET Infinity == 2 * BOARD_SIZE * BOARD_SIZE
      Squares(x, y, stoneType) ==
        {(CellX(k) - x) * (CellX(k) - x) + (CellY(k) - y) * (CellY(k) - y) :
           k \in {c \in 0..(NumCells - 1) : b[CellY(c)][CellX(c)] = stoneType}}
      findNearestStone(x, y, stoneType) ==
        IF Squares(x, y, stoneType) = {} THEN Infinity
        ELSE CHOOSE d \in Squares(x, y, stoneType) :
               \A e \in Squares(x, y, stoneType) : d <= e
  IN [white |-> Cardinality({k \in 0..(NumCells - 1) :
                   /\ b[CellY(k)][CellX(k)] = EMPTY
                   /\ findNearestStone(CellX(k), CellY(k), WHITE)
                        < findNearestStone(CellX(k), CellY(k), BLACK)}),
      black |-> Cardinality({k \in 0..(NumCells - 1) :
                   /\ b[CellY(k)][CellX(k)] = EMPTY
                   /\ findNearestStone(CellX(k), CellY(k), BLACK)
                        < findNearestStone(CellX(k), CellY(k), WHITE)})]

\* ------------------------------------- calculateSimpleMove (worker/index.ts)

\* hasNeighbor of worker/index.ts and of the Board class: as hasNeighbor
\* above, but the cell itself is looked at too
HasStoneWithin(b, x, y) ==
  \E dy \in -NEIGHBOR_RANGE..NEIGHBOR_RANGE, dx \in -NEIGHBOR_RANGE..NEIGHBOR_RANGE :
     /\ InBounds(x + dx, y + dy)
     /\ b[y + dy][x + dx] # 0

\* the empty cells with a stone within range, in row-major order (as cell
\* numbers): the candidates of calculateSimpleMove
SimpleCandidates(b) ==
  SelectSeq([i \in 1..NumCells |-> i - 1],
            LAMBDA k : b[CellY(k)][CellX(k)] = EMPTY /\ HasStoneWithin(b, CellX(k), CellY(k)))

CellsOf(candidates) ==
  [i \in 1..Len(candidates) |-> [x |-> CellX(candidates[i]), y |-> CellY(candidates[i])]]

\* SimplePick falling back to the corner instead of the centre
SimplePickCorner(b, candidates) ==
  IF Len(candidates) = 0
  THEN [cells |-> <<[x |-> 0, y |-> 0]>>, board |-> b]
  ELSE [cells |-> CellsOf(candidates), board |-> b]

\* after the blocking loop (whose test isThreateningPosition places a black
\* stone, asks checkWin and restores the cell): the centre without
\* candidates, else the candidate Math.random() picks
SimplePick(b, candidates) ==
  IF Len(candidates) = 0
  THEN [cells |-> <<[x |-> BOARD_SIZE \div 2, y |-> BOARD_SIZE \div 2]>>, board |-> b]
  ELSE [cells |-> CellsOf(candidates), board |-> b]

SimpleAfterBlock(block) ==
  IF block.done THEN [cells |-> <<[x |-> block.x, y |-> block.y]>>, board |-> block.board]
  ELSE SimplePick(block.board, SimpleCandidates(block.board))

\* [cells: the cells the call may return, board: the board left behind]
calculateSimpleMove(b) == SimpleAfterBlock(WinScan(b, BLACK))

\* ------------------------------------------------ SimpleAI (simple.ts)

\* getLinePattern: the 9 cells at offsets -4..4, 1 for 'O' (player), 2 for
\* 'X' (opponent or off the board), 0 for '.'
getLinePattern(b, x, y, dx, dy, player) ==
  << EncodedCell(b, x, y, dx, dy, player, -4), EncodedCell(b, x, y, dx, dy, player, -3),
     EncodedCell(b, x, y, dx, dy, player, -2), EncodedCell(b, x, y, dx, dy, player, -1),
     EncodedCell(b, x, y, dx, dy, player, 0), EncodedCell(b, x, y, dx, dy, player, 1),
     EncodedCell(b, x, y, dx, dy, player, 2), EncodedCell(b, x, y, dx, dy, player, 3),
     EncodedCell(b, x, y, dx, dy, player, 4) >>

\* pattern.match(/^.../) and pattern.match(/...$/)
StartsWith(pattern, part) == SubSeq(pattern, 1, Len(part)) = part
EndsWith(pattern, part) == SubSeq(pattern, Len(pattern) - Len(part) + 1, Len(pattern)) = part

evaluateDirection(pattern) ==
    (IF HasWindow(pattern, <<1, 1, 1, 1, 1>>) THEN 10000 ELSE 0)
  + (IF HasWindow(pattern, <<0, 1, 1, 1, 1, 0>>) THEN 5000 ELSE 0)
  + (IF \/ StartsWith(pattern, <<1, 1, 1, 1, 0>>)
        \/ EndsWith(pattern, <<0, 1, 1, 1, 1>>)
        \/ HasWindow(pattern, <<1, 1, 1, 0, 1>>)
        \/ HasWindow(pattern, <<1, 1, 0, 1, 1>>)
        \/ HasWindow(pattern, <<1, 0, 1, 1, 1>>) THEN 1000 ELSE 0)
  + (IF HasWindow(pattern, <<0, 1, 1, 1, 0>>) THEN 500 ELSE 0)
  + (IF \/ StartsWith(pattern, <<1, 1, 1, 0>>)
        \/ EndsWith(pattern, <<0, 1, 1, 1>>)
        \/ HasWindow(pattern, <<1, 1, 0, 1>>)
        \/ HasWindow(pattern, <<1, 0, 1, 1>>) THEN 100 ELSE 0)
  + (IF HasWindow(pattern, <<0, 1, 1, 0>>) THEN 50 ELSE 0)
  + (IF \/ StartsWith(pattern, <<1, 1, 0>>)
        \/ EndsWith(pattern, <<0, 1, 1>>)
        \/ HasWindow(pattern, <<1, 0, 1>>) THEN 10 ELSE 0)

\* evaluatePosition (who is the AI's colour) and evaluatePositionForOpponent
\* (who is the other colour): on a copy of the board, Board.setAt puts the
\* stone, which it does on an empty cell only
evaluatePosition(b, x, y, who) ==
  LET temp == IF b[y][x] = EMPTY THEN SetCell(b, x, y, who) ELSE b
  IN evaluateDirection(getLinePattern(temp, x, y, 1, 0, who))
     + evaluateDirection(getLinePattern(temp, x, y, 0, 1, who))
     + evaluateDirection(getLinePattern(temp, x, y, 1, 1, who))
     + evaluateDirection(getLinePattern(temp, x, y, 1, -1, who))

\* Board.getEmptyPositionsWithNeighbors
getEmptyPositionsWithNeighbors(b) == CellsOf(SimpleCandidates(b))

Center == <<[x |-> BOARD_SIZE \div 2, y |-> BOARD_SIZE \div 2]>>

\* the cells getEasyMove may return
getEasyMove(positions) == IF Len(positions) = 0 THEN Center ELSE positions

\* evaluatedPositions.sort(...)[0].position
TopPosition(evaluated) ==
  <<[x |-> SortByScoreDesc(evaluated)[1].x, y |-> SortByScoreDesc(evaluated)[1].y]>>

getMediumMove(b, positions, player) ==
  IF Len(positions) = 0 THEN Center
  ELSE TopPosition([i \in 1..Len(positions) |->
                      Move(positions[i].x, positions[i].y,
                           evaluatePosition(b, positions[i].x, positions[i].y, player))])

\* the score evaluatePosition * 1.5 - evaluatePositionForOpponent, in halves
getHardMove(b, positions, player) ==
  IF Len(positions) = 0 THEN Center
  ELSE TopPosition([i \in 1..Len(positions) |->
                      Move(positions[i].x, positions[i].y,
                           3 * evaluatePosition(b, positions[i].x, positions[i].y, player)
                           - 2 * evaluatePosition(b, positions[i].x, positions[i].y,
                                                  Opponent(player)))])

\* the switch on the difficulty
MoveByDifficulty(b, positions, player, difficulty) ==
  IF difficulty = "easy" THEN getEasyMove(positions)
  ELSE IF difficulty = "hard" THEN getHardMove(b, positions, player)
  ELSE getMediumMove(b, positions, player)

\* after findWinningMove and findBlockingMove, which scan a copy of the
\* board as the forced-move loops above do (setAt, checkWin, clearAt)
GetMoveAfterScans(b, winningMove, blockingMove, player, difficulty) ==
  IF winningMove.done THEN <<[x |-> winningMove.x, y |-> winningMove.y]>>
  ELSE IF blockingMove.done THEN <<[x |-> blockingMove.x, y |-> blockingMove.y]>>
  ELSE MoveByDifficulty(b, getEmptyPositionsWithNeighbors(b), player, difficulty)

\* the cells SimpleAI.getMove may return for an AI of colour player
getMove(b, player, difficulty) ==
  GetMoveAfterScans(b, WinScan(b, player), WinScan(b, Opponent(player)), player, difficulty)

\* ------------------------------------------ the move API of the worker

\* Board.isValidMove, and isValidMove of the workers
isValidMove(b, x, y) == InBounds(x, y) /\ b[y][x] = EMPTY

\* calculateMediumMove of worker/index.ts, the cells it may return: the
\* first winning cell of White, else the first winning cell of Black, else
\* the centre when no empty cell has a stone within range, else the first
\* candidate of the highest evaluatePosition(WHITE) * 1.5 -
\* evaluatePosition(BLACK), both taken with White's stone on the cell
\* (scores in halves).  Every trial stone is removed again.
calculateMediumMoveOfWorker(b) ==
  UNION {
    IF win.done THEN {[x |-> win.x, y |-> win.y]}
    ELSE UNION {
      IF block.done THEN {[x |-> block.x, y |-> block.y]}
      ELSE UNION {
        IF Len(candidates) = 0
        THEN {[x |-> BOARD_SIZE \div 2, y |-> BOARD_SIZE \div 2]}
        ELSE UNION {
          {[x |-> CellX(candidates[i]), y |-> CellY(candidates[i])] :
             i \in {k \in 1..Len(candidates) :
                      /\ \A j \in 1..(k - 1) : score[j] < score[k]
                      /\ \A j \in (k + 1)..Len(candidates) : score[j] <= score[k]}}
          : score \in {[i \in 1..Len(candidates) |->
                          3 * evaluatePosition(
                                SetCell(b, CellX(candidates[i]), CellY(candidates[i]), WHITE),
                                CellX(candidates[i]), CellY(candidates[i]), WHITE)
                          - 2 * evaluatePosition(
                                  SetCell(b, CellX(candidates[i]), CellY(candidates[i]), WHITE),
                                  CellX(candidates[i]), CellY(candidates[i]), BLACK)]} }
        : candidates \in {SimpleCandidates(b)} }
      : block \in {WinScan(b, BLACK)} }
    : win \in {WinScan(b, WHITE)} }

\* a calculateLLMMove that returns what was parsed without isValidMove
calculateLLMMoveUnchecked(b, answer) ==
  IF ~answer.threw /\ answer.parsed
  THEN {[x |-> answer.x, y |-> answer.y]}
  ELSE calculateMediumMoveOfWorker(b)

\* An answer of the LLM call: it threw, or returned a text from which
\* parseAIResponse extracted no coordinates (parsed false) or the
\* coordinates x, y (one or two digits each).
\* calculateLLMMove of worker/index.ts: the cells it may return
calculateLLMMove(b, answer) ==
  IF ~answer.threw /\ answer.parsed /\ isValidMove(b, answer.x, answer.y)
  THEN {[x |-> answer.x, y |-> answer.y]}
  ELSE calculateMediumMoveOfWorker(b)

\* calculateLLMMove of the analysing worker, which resigns before asking
\* the LLM and falls back to the engine's calculateMediumMove
calculateLLMMoveAnalysing(b, answer) ==
  IF analyzeBoard(b).shouldSurrender THEN {[x |-> -1, y |-> -1]}
  ELSE IF ~answer.threw /\ answer.parsed /\ isValidMove(b, answer.x, answer.y)
  THEN {[x |-> answer.x, y |-> answer.y]}
  ELSE UNION {{r.cells[i] : i \in 1..Len(r.cells)} : r \in {calculateMediumMove(b)}}

\* calculateAIMove of either worker (analysing or not), hasKey telling
\* whether env.GOMOKU_AI_API_KEY is set: the cells it may return
calculateAIMove(b, difficulty, hasKey, answer, analysing) ==
  IF difficulty = "easy"
  THEN UNION {{r.cells[i] : i \in 1..Len(r.cells)} : r \in {calculateSimpleMove(b)}}
  ELSE IF difficulty = "hard" /\ hasKey
  THEN IF analysing THEN calculateLLMMoveAnalysing(b, answer)
       ELSE calculateLLMMove(b, answer)
  ELSE IF analysing
  THEN UNION {{r.cells[i] : i \in 1..Len(r.cells)} : r \in {calculateMediumMove(b)}}
  ELSE calculateMediumMoveOfWorker(b)

\* ------------------------------------------------------------- the caller

NoMove == [x |-> -1, y |-> -1, player |-> EMPTY]
NoResult == [x |-> -1, y |-> -1]

\* `null` where the source has a winner of type CellState | null
Null == -1

\* getInitialGameState and DEFAULT_SETTINGS, for the fields not held by
\* board, gameOver and last: no request in flight, nothing notified
NewGame ==
  [currentPlayer |-> BLACK, winner |-> Null, history |-> <<>>,
   difficulty |-> "hard", firstMove |-> "player", aiType |-> "local",
   pending |-> <<>>, thinking |-> FALSE]

\* the board holding black stones on the cells of blacks and white stones
\* on the cells of whites (cells are <<x, y>>)
BoardOf(blacks, whites) ==
  [y \in Coord |-> [x \in Coord |->
     IF <<x, y>> \in blacks THEN BLACK
     ELSE IF <<x, y>> \in whites THEN WHITE
     ELSE EMPTY]]

\* a board without an empty cell other than hole and without three equal
\* stones in a row on any axis (rows XXOOXXOO..., shifted by two per row)
CrowdedBoard(hole) ==
  [y \in Coord |-> [x \in Coord |->
     IF <<x, y>> = hole THEN EMPTY
     ELSE IF (x + 2 * y) % 4 < 2 THEN BLACK ELSE WHITE]]

BlackFour == {<<5, 5>>, <<6, 5>>, <<7, 5>>, <<8, 5>>}
WhiteFour == {<<3, 12>>, <<4, 12>>, <<5, 12>>, <<6, 12>>}
BlackColumn == {<<12, 2>>, <<12, 3>>, <<12, 4>>, <<12, 5>>}

\* the positions a game is taken up from
StartBoards ==
  { BoardOf({}, {}),
    BoardOf({<<7, 7>>}, {}),
    BoardOf(BlackFour, {}),
    BoardOf(BlackFour, WhiteFour),
    BoardOf({<<7, 7>>}, WhiteFour),
    BoardOf({<<1, 0>>, <<2, 0>>}, WhiteFour \cup {<<5, 0>>}),
    BoardOf({<<1, 0>>, <<2, 0>>}, {<<5, 0>>}),
    BoardOf({<<5, 5>>, <<6, 5>>, <<10, 8>>, <<10, 9>>}, {<<7, 7>>, <<2, 12>>}),
    BoardOf({<<5, 5>>, <<6, 5>>, <<7, 5>>, <<10, 8>>, <<10, 9>>, <<10, 10>>},
            {<<7, 7>>, <<2, 12>>}),
    BoardOf({<<5, 5>>, <<6, 5>>, <<7, 5>>}, {<<7, 7>>}),
    BoardOf({<<7, 7>>}, {<<3, 12>>, <<4, 12>>, <<5, 12>>}),
    BoardOf(BlackFour \cup BlackColumn, {<<4, 5>>, <<12, 1>>, <<2, 12>>, <<3, 12>>}),
    BoardOf(BlackFour \cup {<<5, 8>>, <<6, 8>>, <<7, 8>>, <<8, 8>>}
                      \cup {<<5, 11>>, <<6, 11>>, <<7, 11>>, <<8, 11>>},
            {<<0, 0>>, <<3, 1>>, <<11, 0>>, <<14, 2>>, <<0, 6>>, <<13, 6>>, <<1, 9>>,
             <<12, 9>>, <<0, 13>>, <<3, 14>>, <<11, 14>>, <<14, 12>>}),
    CrowdedBoard(<<7, 7>>) }

\* how many stones are placed after the start
MaxExtra == 1

\* the lists of threats canBlockMultipleThreats is called with: up to
\* MaxThreats of the cells (4,5), (9,5), (12,6) that are empty
MaxThreats == 2

ThreatLists(b) ==
  UNION { [1..n -> {c \in {<<4, 5>>, <<9, 5>>, <<12, 6>>} : b[c[2]][c[1]] = EMPTY}] : n \in 0..MaxThreats }

Init ==
  /\ board \in StartBoards
  /\ gameOver = FALSE
  /\ last = NoMove
  /\ placed = 0
  /\ op = "none"
  /\ pre = board
  /\ ret = NoResult
  /\ game = NewGame

\* a stone is put on an empty cell (Board.setAt) and checkWin is asked
\* whether it wins
PlaceStone(x, y, player) ==
  /\ ~gameOver
  /\ placed < MaxExtra
  /\ board[y][x] = EMPTY
  /\ board' = SetCell(board, x, y, player)
  /\ gameOver' = checkWin(board', x, y, player)
  /\ last' = [x |-> x, y |-> y, player |-> player]
  /\ placed' = placed + 1
  /\ op' = "none"
  /\ pre' = board'
  /\ ret' = NoResult
  /\ UNCHANGED game

\* the opponent plays
OpponentMove == \E c \in {<<4, 5>>, <<9, 5>>} : PlaceStone(c[1], c[2], BLACK)

\* the caller plays the cell calculateMediumMove returned for White
PlayReturnedMove ==
  /\ op = "calculateMediumMove"
  /\ InBounds(ret.x, ret.y)
  /\ PlaceStone(ret.x, ret.y, WHITE)

\* an engine entry point returns result and leaves the board b behind
Return(name, result, b) ==
  /\ board' = b
  /\ ret' = result
  /\ op' = name
  /\ pre' = board
  /\ UNCHANGED <<gameOver, last, placed, game>>

\* the caller asks for White's move
CallCalculateMediumMove ==
  /\ ~gameOver
  /\ op = "none"
  /\ \E r \in {calculateMediumMove(board)} :
       \E i \in 1..Len(r.cells) :
          Return("calculateMediumMove",
                 [x |-> r.cells[i].x, y |-> r.cells[i].y, phase |-> r.phase],
                 r.board)

\* the caller asks for the analysis of the position
CallAnalyzeBoard ==
  /\ ~gameOver
  /\ op = "none"
  /\ \E r \in {analyzeBoard(board)} :
       Return("analyzeBoard",
              [topMoves |-> r.topMoves,
               urgencyLevel |-> r.urgencyLevel, urgencyReason |-> r.urgencyReason,
               shouldSurrender |-> r.shouldSurrender,
               surrenderReason |-> r.surrenderReason],
              r.board)

\* the cells c of a list as the objects {x, y} of the source
ThreatObjects(cells) == [i \in 1..Len(cells) |-> [x |-> cells[i][1], y |-> cells[i][2]]]

\* the analysis asks how much of the board each colour controls
CallAnalyzeControlledArea ==
  /\ op = "none"
  /\ \E r \in {analyzeControlledArea(board)} :
       Return("analyzeControlledArea", [white |-> r.white, black |-> r.black], board)

\* the resolver is asked about a list of empty cells
CallCanBlockMultipleThreats ==
  /\ ~gameOver
  /\ op = "none"
  /\ \E threats \in ThreatLists(board) :
       \E r \in {canBlockMultipleThreats(board, ThreatObjects(threats))} :
          Return("canBlockMultipleThreats",
                 [canBlockAll |-> r.result, threats |-> ThreatObjects(threats)],
                 r.board)

\* the resolver of the second copy is asked about a list of empty cells
CallCanBlockVariant ==
  /\ ~gameOver
  /\ op = "none"
  /\ \E threats \in ThreatLists(board) :
       \E r \in {canBlockMultipleThreatsVariant(board, ThreatObjects(threats))} :
          Return("canBlockMultipleThreatsVariant",
                 [canBlockAll |-> r.result, threats |-> ThreatObjects(threats)],
                 r.board)

\* the worker asks calculateSimpleMove for White's move
CallCalculateSimpleMove ==
  /\ ~gameOver
  /\ op = "none"
  /\ \E r \in {calculateSimpleMove(board)} :
       \E i \in 1..Len(r.cells) : Return("calculateSimpleMove", r.cells[i], r.board)

Difficulties == {"easy", "medium", "hard"}

\* the client asks a SimpleAI of some colour and difficulty for its move;
\* the AI works on copies of the board
CallGetMove ==
  /\ ~gameOver
  /\ op = "none"
  /\ \E player \in {BLACK, WHITE}, difficulty \in Difficulties :
       \E cells \in {getMove(board, player, difficulty)} :
          \E i \in 1..Len(cells) :
             Return("getMove",
                    [x |-> cells[i].x, y |-> cells[i].y,
                     player |-> player, difficulty |-> difficulty],
                    board)

\* checkWin is asked about a cell and a player
CallCheckWin ==
  /\ op = "none"
  /\ \E x \in Coord, y \in Coord, player \in {BLACK, WHITE} :
        Return("checkWin",
               [x |-> x, y |-> y, player |-> player,
                won |-> checkWin(board, x, y, player)],
               board)

\* the caller drops the result of the last call
Discard ==
  /\ op # "none"
  /\ op' = "none"
  /\ pre' = board
  /\ ret' = NoResult
  /\ UNCHANGED <<board, gameOver, last, placed, game>>

Next ==
  \/ OpponentMove
  \/ PlayReturnedMove
  \/ CallCalculateMediumMove
  \/ CallAnalyzeBoard
  \/ CallAnalyzeControlledArea
  \/ CallCanBlockMultipleThreats
  \/ CallCanBlockVariant
  \/ Discard

Spec == Init /\ [][Next]_vars

\* ------------------------------------------------ the move selectors

\* a game from the empty board on
InitOpening ==
  /\ board = EmptyBoard
  /\ gameOver = FALSE
  /\ last = NoMove
  /\ placed = 0
  /\ op = "none"
  /\ pre = board
  /\ ret = NoResult
  /\ game = NewGame

NextOpening ==
  \/ OpponentMove
  \/ PlayReturnedMove
  \/ CallCalculateMediumMove
  \/ CallCalculateSimpleMove
  \/ CallGetMove
  \/ Discard

SpecOpening == InitOpening /\ [][NextOpening]_vars

\* ------------------------------------------------------ the win detector

\* the second board has six black stones in a column
WinBoards ==
  { BoardOf(BlackFour, WhiteFour),
    BoardOf({<<12, 2>>, <<12, 3>>, <<12, 4>>, <<12, 5>>, <<12, 6>>, <<12, 7>>},
            {<<3, 3>>, <<4, 4>>, <<5, 5>>, <<6, 6>>, <<13, 1>>}) }

InitWin ==
  /\ board \in WinBoards
  /\ gameOver = \E x \in Coord, y \in Coord :
                   board[y][x] # EMPTY /\ checkWin(board, x, y, board[y][x])
  /\ last = NoMove
  /\ placed = 0
  /\ op = "none"
  /\ pre = board
  /\ ret = NoResult
  /\ game = NewGame

\* either side puts a further stone on one of four cells
AnyMove ==
  \E c \in {<<4, 5>>, <<9, 5>>, <<7, 12>>, <<7, 7>>}, player \in {BLACK, WHITE} :
     PlaceStone(c[1], c[2], player)

NextWin ==
  \/ AnyMove
  \/ CallCheckWin
  \/ Discard

SpecWin == InitWin /\ [][NextWin]_vars

\* ------------------------------------------- the evaluators on their own

\* boards the evaluators are applied to: open and closed rows of both
\* colours, split rows along a row and a diagonal, stones on the edge, a
\* crowded board
EvalBoards ==
  { BoardOf(BlackFour, WhiteFour),
    BoardOf({<<5, 5>>, <<6, 5>>, <<7, 5>>, <<10, 8>>, <<10, 9>>, <<10, 10>>},
            {<<7, 7>>, <<2, 12>>}),
    BoardOf({<<1, 0>>, <<2, 0>>}, WhiteFour \cup {<<5, 0>>}),
    BoardOf({<<5, 5>>, <<6, 5>>, <<8, 5>>, <<3, 10>>, <<4, 9>>, <<6, 7>>},
            {<<9, 5>>, <<0, 14>>}),
    CrowdedBoard(<<7, 7>>) }

InitEval ==
  /\ board \in EvalBoards
  /\ gameOver = FALSE
  /\ last = NoMove
  /\ placed = 0
  /\ op = "none"
  /\ pre = board
  /\ ret = NoResult
  /\ game = NewGame

\* analyzeBoard and findBestMoves ask detectThreats for either colour
CallDetectThreats ==
  /\ op = "none"
  /\ \E player \in {BLACK, WHITE} :
       \E r \in {detectThreats(board, player)} :
          Return("detectThreats",
                 [player |-> player, liveFour |-> r.liveFour,
                  liveThree |-> r.liveThree],
                 r.board)

\* evaluatePositionAdvanced asks evaluateShapeInDirection for one axis of
\* one cell
CallEvaluateShapeInDirection ==
  /\ op = "none"
  /\ \E x \in Coord, y \in Coord, d \in 1..Len(directions), player \in {BLACK, WHITE} :
       Return("evaluateShapeInDirection",
              [x |-> x, y |-> y, d |-> d, player |-> player,
               score |-> evaluateShapeInDirection(board, x, y, directions[d][1],
                                                  directions[d][2], player)],
              board)

\* the move choosers ask evaluatePositionAdvanced for the score of a cell
CallEvaluatePositionAdvanced ==
  /\ op = "none"
  /\ \E x \in Coord, y \in Coord, player \in {BLACK, WHITE} :
       Return("evaluatePositionAdvanced",
              [x |-> x, y |-> y, player |-> player,
               score |-> evaluatePositionAdvanced(board, x, y, player)],
              board)

\* a POST to /api/move of either worker: the difficulty asked for, whether
\* an API key is configured, and what the LLM call does when it is reached
\* (it throws, its text holds no coordinates, or it holds the coordinates
\* of a cell that may be empty, occupied or off the board)
CallCalculateAIMove ==
  /\ op = "none"
  /\ \E analysing \in BOOLEAN, difficulty \in Difficulties, hasKey \in BOOLEAN,
        answer \in {[threw |-> TRUE, parsed |-> FALSE, x |-> 0, y |-> 0],
                    [threw |-> FALSE, parsed |-> FALSE, x |-> 0, y |-> 0]}
                   \cup {[threw |-> FALSE, parsed |-> TRUE, x |-> c[1], y |-> c[2]] :
                           c \in {<<7, 7>>, <<5, 5>>, <<15, 3>>, <<3, 99>>}} :
       /\ (difficulty = "hard" /\ hasKey) \/ answer.threw
       /\ \E move \in calculateAIMove(board, difficulty, hasKey, answer, analysing) :
             Return("calculateAIMove",
                    [x |-> move.x, y |-> move.y, analysing |-> analysing,
                     difficulty |-> difficulty, hasKey |-> hasKey, answer |-> answer],
                    board)

\* evaluateTacticalValue of the enhanced engine: calculateMediumMove puts
\* player's stone on a candidate cell, and countLiveThrees and countFours
\* (length 6), evaluateConnectivity and countThreatDirections (length 5)
\* take the line of one axis of the cell and derive its pattern
CallExtractLine ==
  /\ op = "none"
  /\ \E x \in Coord, y \in Coord, d \in 1..Len(directions), player \in {BLACK, WHITE},
        length \in {5, 6} :
       /\ board[y][x] = EMPTY
       /\ hasNeighbor(board, x, y)
       /\ Return("extractLine",
                 [x |-> x, y |-> y, d |-> d, player |-> player, length |-> length,
                  pattern |->
                    LinePattern(extractLine(SetCell(board, x, y, player), x, y,
                                            directions[d][1], directions[d][2], length),
                                player)],
                 board)

NextEval ==
  \/ CallDetectThreats
  \/ CallExtractLine
  \/ CallCalculateAIMove
  \/ CallEvaluateShapeInDirection
  \/ CallEvaluatePositionAdvanced
  \/ Discard

SpecEval == InitEval /\ [][NextEval]_vars

\* ------------------------------------------------------ GameController

\* the replay loop of undoMove from entry i of the history on, on the board
\* b that Board.reset left empty; Board.setAt puts a stone only on an empty
\* cell
RECURSIVE Replay(_, _, _)
Replay(b, history, i) ==
  IF i > Len(history) THEN b
  ELSE Replay(IF isValidMove(b, history[i].x, history[i].y)
              THEN SetCell(b, history[i].x, history[i].y, history[i].player)
              ELSE b,
              history, i + 1)

\* what CellState.SURRENDER evaluates to: the enum has no such member
Undefined == -2

\* The controller while one of its methods runs is the record of its fields
\* (board, gameOver, last, game) and of the callbacks made so far (notes).

\* onGameOverCallback(winner)
onGameOver(c, winner) ==
  [c EXCEPT !.notes = Append(@, [callback |-> "onGameOver", arg |-> winner])]

\* onThinkingCallback(thinking), the argument noted as 1 or 0
onThinking(c, thinking) ==
  [c EXCEPT !.notes = Append(@, [callback |-> "onThinking",
                                 arg |-> IF thinking THEN 1 ELSE 0]),
            !.game.thinking = thinking]

makeMove(c, x, y, player) ==
  [c EXCEPT !.board = IF isValidMove(@, x, y) THEN SetCell(@, x, y, player) ELSE @,
            !.last = [x |-> x, y |-> y, player |-> player],
            !.game.history = Append(@, [x |-> x, y |-> y, player |-> player]),
            !.game.currentPlayer = IF player = BLACK THEN WHITE ELSE BLACK]

\* checkGameEnd: [ended, c]
checkGameEnd(c) ==
  LET lastPlayer == IF InBounds(c.last.x, c.last.y) THEN c.board[c.last.y][c.last.x]
                    ELSE EMPTY
  IN IF c.last # NoMove /\ checkWin(c.board, c.last.x, c.last.y, lastPlayer)
     THEN [ended |-> TRUE,
           c |-> onGameOver([c EXCEPT !.gameOver = TRUE, !.game.winner = lastPlayer],
                            lastPlayer)]
     ELSE IF \A x \in Coord, y \in Coord : c.board[y][x] # EMPTY
     THEN [ended |-> TRUE,
           c |-> onGameOver([c EXCEPT !.gameOver = TRUE, !.game.winner = Null], Null)]
     ELSE [ended |-> FALSE, c |-> c]

\* positions[Math.floor(Math.random() * positions.length)] for the values
\* 0 and 0.5 of Math.random()
Drawn(positions) ==
  {positions[(r * Len(positions)) \div 2 + 1] : r \in {0, 1}}

\* makeAIMove from the test of the move to its end: the controllers the
\* method may leave behind
PlaceAIMove(c, move) ==
  IF isValidMove(c.board, move.x, move.y)
  THEN {onThinking(checkGameEnd(makeMove(c, move.x, move.y, WHITE)).c, FALSE)}
  ELSE LET validPositions == getEmptyPositionsWithNeighbors(c.board)
       IN IF Len(validPositions) > 0
          THEN {onThinking(checkGameEnd(makeMove(c, randomMove.x, randomMove.y,
                                                 WHITE)).c, FALSE) :
                  randomMove \in Drawn(validPositions)}
          ELSE {onThinking(c, FALSE)}

\* how many move requests may be in flight
MaxPending == 1

\* makeAIMove up to its end (local AI) or up to its `await` (LLM client,
\* whose getMove has copied the board into the request): the controllers
\* it may leave behind
makeAIMove(c) ==
  IF c.game.aiType = "local"
  THEN UNION {PlaceAIMove(onThinking(c, TRUE), move) :
                 move \in Drawn(getMove(c.board, WHITE, c.game.difficulty))}
  ELSE {[onThinking(c, TRUE) EXCEPT
           !.game.pending = Append(@, [sent |-> c.board, live |-> TRUE, held |-> c.board])]}

\* a makeAIMove whose surrender branch returns without ending the game
resumeAIMoveKeepsPlaying(c, move) ==
  IF move.x = -1 /\ move.y = -1
  THEN {onThinking(c, FALSE)}
  ELSE PlaceAIMove(c, move)

\* makeAIMove after its `await`, for the move the client resolved to
resumeAIMove(c, move) ==
  IF move.x = -1 /\ move.y = -1
  THEN {onThinking(onGameOver([c EXCEPT !.gameOver = TRUE, !.game.winner = WHITE],
                              Undefined),
                   FALSE)}
  ELSE PlaceAIMove(c, move)

\* handlePlayerMove: [result, cs: the controllers it may leave behind]
handlePlayerMove(c, x, y) ==
  IF c.gameOver \/ c.game.currentPlayer # BLACK THEN [result |-> FALSE, cs |-> {c}]
  ELSE IF ~isValidMove(c.board, x, y) THEN [result |-> FALSE, cs |-> {c}]
  ELSE LET end == checkGameEnd(makeMove(c, x, y, BLACK))
       IN [result |-> TRUE, cs |-> IF end.ended THEN {end.c} ELSE makeAIMove(end.c)]

\* resetGame: the controllers it may leave behind; the LLM clients still
\* waiting keep the Board object that the controller replaces
resetGame(c) ==
  LET fresh == [c EXCEPT !.board = EmptyBoard, !.gameOver = FALSE, !.last = NoMove,
                         !.game.winner = Null, !.game.history = <<>>,
                         !.game.currentPlayer =
                            IF c.game.firstMove = "player" THEN BLACK ELSE WHITE,
                         !.game.pending =
                            [i \in 1..Len(@) |->
                               IF @[i].live
                               THEN [@[i] EXCEPT !.live = FALSE, !.held = c.board]
                               ELSE @[i]]]
  IN IF c.game.firstMove = "ai" THEN makeAIMove(fresh) ELSE {fresh}

\* undoMove: [result, c]
undoMove(c) ==
  IF Len(c.game.history) < 2 THEN [result |-> FALSE, c |-> c]
  ELSE LET history == SubSeq(c.game.history, 1, Len(c.game.history) - 2)
       IN [result |-> TRUE,
           c |-> [c EXCEPT !.game.history = history,
                           !.board = Replay(EmptyBoard, history, 1),
                           !.game.currentPlayer = BLACK,
                           !.gameOver = FALSE,
                           !.game.winner = Null,
                           !.last = IF Len(history) > 0 THEN history[Len(history)]
                                    ELSE NoMove]]

\* what LLMClient.getMove may resolve to for a request.  When the call
\* succeeds: a cell (of two the worker is taken to answer with) that was
\* empty on the board sent, or the surrender sentinel.  When it failed: the
\* fallback move (the scans and the random draw of SimpleAI's easy level)
\* on the Board object the client holds.
LLMMoves(c, request, failed) ==
  IF failed
  THEN Drawn(getMove(IF request.live THEN c.board ELSE request.held, WHITE, "easy"))
  ELSE {[x |-> -1, y |-> -1]}
       \cup {[x |-> cell[1], y |-> cell[2]] :
               cell \in {r \in {<<1, 5>>, <<0, 0>>} :
                           isValidMove(request.sent, r[1], r[2])}}

\* how many moves of the human are followed
MaxMoves == 2

\* a game in progress with Black to move.  The settings are those of the
\* settings panel (updateSettings); the moves played so far are none, or
\* Black with four in a column, or White with four in a column, all in one
\* corner of the board.
InitGame ==
  /\ \E aiType \in {"local", "llm"}, firstMove \in {"player", "ai"} :
     \E history \in
          { <<>>,
            << [x |-> 0, y |-> 1, player |-> BLACK], [x |-> 1, y |-> 1, player |-> WHITE],
               [x |-> 0, y |-> 2, player |-> BLACK], [x |-> 2, y |-> 2, player |-> WHITE],
               [x |-> 0, y |-> 3, player |-> BLACK], [x |-> 1, y |-> 4, player |-> WHITE],
               [x |-> 0, y |-> 4, player |-> BLACK], [x |-> 2, y |-> 0, player |-> WHITE] >>,
            << [x |-> 3, y |-> 1, player |-> BLACK], [x |-> 1, y |-> 1, player |-> WHITE],
               [x |-> 3, y |-> 3, player |-> BLACK], [x |-> 1, y |-> 2, player |-> WHITE],
               [x |-> 0, y |-> 7, player |-> BLACK], [x |-> 1, y |-> 3, player |-> WHITE],
               [x |-> 2, y |-> 6, player |-> BLACK], [x |-> 1, y |-> 4, player |-> WHITE] >> } :
       /\ firstMove = "ai" => history = <<>>
       /\ board = Replay(EmptyBoard, history, 1)
       /\ last = IF Len(history) > 0 THEN history[Len(history)] ELSE NoMove
       /\ game = [NewGame EXCEPT !.history = history, !.aiType = aiType,
                                 !.firstMove = firstMove]
  /\ gameOver = FALSE
  /\ placed = 0
  /\ op = "none"
  /\ pre = board
  /\ ret = NoResult

\* the fields of the controller as the variables hold them
Current == [board |-> board, gameOver |-> gameOver, last |-> last, game |-> game,
            notes |-> <<>>]

\* a method of the controller has run and left the controller c behind
Ran(name, c, result) ==
  /\ board' = c.board
  /\ gameOver' = c.gameOver
  /\ last' = c.last
  /\ game' = c.game
  /\ op' = name
  /\ pre' = board
  /\ ret' = [result |-> result, notes |-> c.notes]

\* the human clicks a cell: the two winning cells of the corner, or a cell
\* off the board
HandlePlayerMove ==
  \E cell \in {<<0, 0>>, <<2, 1>>, <<15, 7>>} :
     /\ \/ placed < MaxMoves
        \/ gameOver
        \/ game.currentPlayer # BLACK
        \/ ~isValidMove(board, cell[1], cell[2])
     /\ \E r \in {handlePlayerMove(Current, cell[1], cell[2])} :
        /\ placed' = IF r.result THEN placed + 1 ELSE placed
        /\ \E c \in r.cs :
              /\ Len(c.game.pending) <= MaxPending
              /\ Ran("handlePlayerMove", c,
                     [x |-> cell[1], y |-> cell[2], accepted |-> r.result])

UndoMove ==
  \E r \in {undoMove(Current)} :
     /\ UNCHANGED placed
     /\ Ran("undoMove", r.c, [accepted |-> r.result])

ResetGame ==
  \E c \in resetGame(Current) :
     /\ Len(c.game.pending) <= MaxPending
     /\ UNCHANGED placed
     /\ Ran("resetGame", c, [accepted |-> TRUE])

\* a request in flight is answered and makeAIMove runs to its end
AIMoveResumes ==
  /\ op' = "makeAIMove"
  /\ \E i \in 1..Len(game.pending) :
     \E failed \in BOOLEAN : \E move \in LLMMoves(Current, game.pending[i], failed) :
        \E c \in resumeAIMove(
                   [Current EXCEPT !.game.pending =
                      SubSeq(@, 1, i - 1) \o SubSeq(@, i + 1, Len(@))], move) :
          /\ UNCHANGED placed
          /\ Ran("makeAIMove", c,
                 [sent |-> game.pending[i].sent, x |-> move.x, y |-> move.y])

NextGame ==
  \/ HandlePlayerMove
  \/ UndoMove
  \/ ResetGame
  \/ AIMoveResumes

SpecGame == InitGame /\ [][NextGame]_vars

\* the request of LLMClient.getMove always settles: fetch resolves or
\* rejects, and getMove's catch turns a rejection into the fallback move
SpecGameFair == SpecGame /\ WF_vars(AIMoveResumes)

\* ----------------------------------------------------------- properties

EngineOps == {"calculateMediumMove", "analyzeBoard", "canBlockMultipleThreats"}

\* C1: when calculateMediumMove, analyzeBoard or canBlockMultipleThreats
\* (called with threats on empty cells) has returned, through whichever
\* exit path, every cell of the board holds the value it held when the
\* call was made.
BoardRestored == op \in EngineOps => board = pre

\* an early return of calculateMediumMove (a blocking cell was found) has
\* been taken
BlockReturnTaken ==
  /\ op = "calculateMediumMove"
  /\ ret.phase = "block"
  /\ pre[ret.y][ret.x] = EMPTY

\* five cells in a row on some axis that hold player's stones and include
\* the cell (x,y)
FiveThrough(b, x, y, player) ==
  \E d \in 1..Len(directions), s \in -4..0 :
     \A i \in s..(s + 4) :
        /\ InBounds(x + directions[d][1] * i, y + directions[d][2] * i)
        /\ b[y + directions[d][2] * i][x + directions[d][1] * i] = player

\* C2 as stated: for every cell and player, checkWin returns true exactly
\* when at least five consecutive stones of player on some axis include
\* the cell.
WinIffFiveThrough ==
  op = "checkWin" => (ret.won <=> FiveThrough(board, ret.x, ret.y, ret.player))

\* C2 as amended: for every cell that holds player's stone, checkWin
\* returns true exactly when at least five consecutive stones of player on
\* some axis include the cell.
WinIffFiveThroughOwnStone ==
  op = "checkWin" /\ board[ret.y][ret.x] = ret.player
    => (ret.won <=> FiveThrough(board, ret.x, ret.y, ret.player))

\* checkWin has answered true for a stone of the player asked about
WinFoundAtStone ==
  /\ op = "checkWin"
  /\ board[ret.y][ret.x] = ret.player
  /\ ret.won

\* some empty cell gives player five in a row
CanWin(b, player) ==
  \E x \in Coord, y \in Coord :
     b[y][x] = EMPTY /\ checkWin(SetCell(b, x, y, player), x, y, player)

\* player's stone on the empty cell (x,y) wins
WinsAt(b, x, y, player) ==
  /\ InBounds(x, y)
  /\ b[y][x] = EMPTY
  /\ checkWin(SetCell(b, x, y, player), x, y, player)

\* C3: when White can win at once, calculateMediumMove returns a cell at
\* which White wins, also when Black can win at once; otherwise, when Black
\* can win at once, it returns a cell at which Black would win; with
\* Black's stones on (5,5)..(8,5) alone it returns (4,5) or (9,5).
ForcedMoveFirst ==
  op = "calculateMediumMove" =>
    /\ CanWin(pre, WHITE) => WinsAt(pre, ret.x, ret.y, WHITE)
    /\ ~CanWin(pre, WHITE) /\ CanWin(pre, BLACK) => WinsAt(pre, ret.x, ret.y, BLACK)
    /\ pre = BoardOf(BlackFour, {}) => <<ret.x, ret.y>> \in {<<4, 5>>, <<9, 5>>}

\* calculateMediumMove has returned on a board where both sides could win
\* at once
WinPreferredToBlock ==
  /\ op = "calculateMediumMove"
  /\ CanWin(pre, WHITE)
  /\ CanWin(pre, BLACK)

HasEmptyCell(b) == \E x \in Coord, y \in Coord : b[y][x] = EMPTY

\* C4: on a board with an empty cell calculateMediumMove returns a cell
\* that is on the board and empty.
MoveIsPlayable ==
  op = "calculateMediumMove" /\ HasEmptyCell(pre)
    => InBounds(ret.x, ret.y) /\ pre[ret.y][ret.x] = EMPTY

\* calculateMediumMove has returned the only empty cell of a board
LastCellReturned ==
  /\ op = "calculateMediumMove"
  /\ HasEmptyCell(pre)
  /\ \A x \in Coord, y \in Coord : pre[y][x] = EMPTY => x = ret.x /\ y = ret.y

Selectors == {"calculateMediumMove", "calculateSimpleMove", "getMove"}

\* C5: on the empty board calculateMediumMove, calculateSimpleMove and
\* SimpleAI.getMove (any difficulty, either colour) return the centre (7,7).
CentreOnEmptyBoard ==
  op \in Selectors /\ pre = EmptyBoard => ret.x = 7 /\ ret.y = 7

\* a hard SimpleAI playing Black has answered on the empty board
HardBlackOpened ==
  /\ op = "getMove"
  /\ pre = EmptyBoard
  /\ ret.player = BLACK
  /\ ret.difficulty = "hard"

\* the cells detectThreats reports as live-four or live-three cells
ReportedCells(dt) ==
  {<<dt.liveFour[i].x, dt.liveFour[i].y>> : i \in 1..Len(dt.liveFour)}
    \cup {<<dt.liveThree[i].x, dt.liveThree[i].y>> : i \in 1..Len(dt.liveThree)}

\* C6 as stated: the cell calculateMediumMove returns from its threat phase
\* is one that detectThreats, run for Black, reports as a live-four or
\* live-three cell.
ThreatPhaseBlocksBlack ==
  op = "calculateMediumMove" /\ ret.phase = "threat"
    => <<ret.x, ret.y>> \in ReportedCells(detectThreats(pre, BLACK))

\* the score evaluatePositionAdvanced gives player's stone on (x,y)
ScoreAt(b, x, y, player) ==
  evaluatePositionAdvanced(SetCell(b, x, y, player), x, y, player)

\* twice max(1.5 * ai, human) when ai exceeds 10000 or human exceeds 8000
\* (scores in hundredths), else -1
KeyOfScores(ai, human) ==
  IF ai > 1000000 \/ human > 800000
  THEN IF 3 * ai > 2 * human THEN 3 * ai ELSE 2 * human
  ELSE -1

\* the key of an empty cell, -1 for any other cell
ThreatKey(b, x, y) ==
  IF InBounds(x, y) /\ b[y][x] = EMPTY
  THEN KeyOfScores(ScoreAt(b, x, y, WHITE), ScoreAt(b, x, y, BLACK))
  ELSE -1

IsTopKey(key, keys) == key >= 0 /\ \A n \in keys : n <= key

\* C6 as amended: the threat phase is entered only when neither side has an
\* immediate winning cell, and the cell calculateMediumMove returns from it
\* is an empty cell where White's stone scores more than 10000 or Black's
\* more than 8000, and no such cell has a greater max(1.5 * White's score,
\* Black's score).
ThreatPhaseTopScore ==
  op = "calculateMediumMove" /\ ret.phase = "threat"
    => /\ ~CanWin(pre, WHITE)
       /\ ~CanWin(pre, BLACK)
       /\ IsTopKey(ThreatKey(pre, ret.x, ret.y),
                   {ThreatKey(pre, CellX(k), CellY(k)) : k \in 0..(NumCells - 1)})

\* the threat phase has returned a cell that Black has no live three or
\* live four at
OwnThreatPlayed ==
  /\ op = "calculateMediumMove"
  /\ ret.phase = "threat"
  /\ <<ret.x, ret.y>> \notin ReportedCells(detectThreats(pre, BLACK))
  /\ ThreatKey(pre, ret.x, ret.y) >= 0

\* black stones on (x,y) and the next two cells in direction d, with the
\* cell before and the cell after on the board and empty
LiveThreeOn(b, x, y, d) ==
  \A i \in -1..3 :
     /\ InBounds(x + directions[d][1] * i, y + directions[d][2] * i)
     /\ b[y + directions[d][2] * i][x + directions[d][1] * i]
          = IF i \in 0..2 THEN BLACK ELSE EMPTY

LiveThrees(b) ==
  {t \in Coord \X Coord \X (1..Len(directions)) : LiveThreeOn(b, t[1], t[2], t[3])}

\* the cells of a three and the two cells beyond each of its ends
Reach(t) ==
  {<<t[1] + directions[t[3]][1] * i, t[2] + directions[t[3]][2] * i>> : i \in -2..4}

\* exactly two live threes, on different axes, that share no cell
TwoApart(threes) ==
  /\ Cardinality(threes) = 2
  /\ \E s \in threes, t \in threes : s[3] # t[3] /\ Reach(s) \cap Reach(t) = {}

\* C7: on a board where Black has two live threes on independent axes with
\* no common blocking cell and nothing else threatens (no immediate win,
\* no white threat cell), analyzeBoard returns urgencyLevel critical and
\* shouldSurrender true.
DoubleThreeSurrenders ==
  /\ op = "analyzeBoard"
  /\ TwoApart(LiveThrees(pre))
  /\ ~CanWin(pre, WHITE)
  /\ ~CanWin(pre, BLACK)
  /\ ReportedCells(detectThreats(pre, WHITE)) = {}
  => ret.urgencyLevel = "critical" /\ ret.shouldSurrender

HasLiveFour(dt) == Len(dt.liveFour) > 0

\* an immediate winning cell or a live-four cell of either side
CriticalCondition(b) ==
  \/ CanWin(b, WHITE)
  \/ CanWin(b, BLACK)
  \/ HasLiveFour(detectThreats(b, BLACK))
  \/ HasLiveFour(detectThreats(b, WHITE))

\* C8: analyzeBoard returns urgencyLevel critical whenever either side has
\* an immediate winning cell or a live-four cell.
CriticalKept ==
  op = "analyzeBoard" /\ CriticalCondition(pre) => ret.urgencyLevel = "critical"

ThreeCount(dt) == Len(dt.liveThree)

\* the high and normal levels decided from the critical conditions and the
\* live-three cells the two detectThreats calls report
LevelsMatch(level, critical, blackThrees, whiteThrees) ==
  /\ level = "high" <=> (blackThrees = 1 /\ ~critical /\ whiteThrees <= 1)
  /\ level = "normal" <=> (blackThrees = 0 /\ ~critical /\ whiteThrees <= 1)

\* C9: analyzeBoard returns high exactly when Black has one live-three cell
\* and no critical condition holds (no immediate win, no live four of
\* either side, no double live three), and normal exactly when neither a
\* critical condition nor the high condition holds.
HighAndNormalExact ==
  op = "analyzeBoard"
    => LevelsMatch(ret.urgencyLevel, CriticalCondition(pre),
                   ThreeCount(detectThreats(pre, BLACK)),
                   ThreeCount(detectThreats(pre, WHITE)))

\* C10: canBlockMultipleThreats returns false for two distinct empty cells
\* each of which gives Black five in a row.
TwoWinsUnblockable ==
  /\ op = "canBlockMultipleThreats"
  /\ Len(ret.threats) = 2
  /\ ret.threats[1] # ret.threats[2]
  /\ \A i \in 1..2 : WinsAt(pre, ret.threats[i].x, ret.threats[i].y, BLACK)
  => ~ret.canBlockAll

\* the resolver has answered for the open ends of two separate black fours
SeparateFoursAsked ==
  /\ op = "canBlockMultipleThreats"
  /\ Len(ret.threats) = 2
  /\ {<<ret.threats[1].x, ret.threats[1].y>>, <<ret.threats[2].x, ret.threats[2].y>>}
       = {<<9, 5>>, <<12, 6>>}
  /\ \A i \in 1..2 : WinsAt(pre, ret.threats[i].x, ret.threats[i].y, BLACK)
  /\ ~ret.canBlockAll

ResolverOps == {"canBlockMultipleThreats", "canBlockMultipleThreatsVariant"}

\* the cells a list of threats names
ThreatSet(threats) == {<<threats[i].x, threats[i].y>> : i \in 1..Len(threats)}

\* C11: canBlockMultipleThreats, in the copy with the test after the loop
\* and in the copy without it, returns true for every list that names at
\* most one cell: the empty list, one threat, and two or more threats on
\* the same empty cell.
OneCellBlockable ==
  op \in ResolverOps /\ Cardinality(ThreatSet(ret.threats)) <= 1 => ret.canBlockAll

\* the copy without the test after the loop has answered for a list that
\* names the same winning cell of Black twice
SameWinTwice ==
  /\ op = "canBlockMultipleThreatsVariant"
  /\ Len(ret.threats) = 2
  /\ ret.threats[1] = ret.threats[2]
  /\ WinsAt(pre, ret.threats[1].x, ret.threats[1].y, BLACK)
  /\ ret.canBlockAll

\* an empty cell with a stone at most two columns and two rows away
NearStone(b, x, y) ==
  /\ b[y][x] = EMPTY
  /\ \E dx \in -2..2, dy \in -2..2 :
        InBounds(x + dx, y + dy) /\ b[y + dy][x + dx] # EMPTY

\* 1.5 * (White's score) - 1.2 * (Black's score), in thousandths
CombinedScore(b, x, y) ==
  15 * ScoreAt(b, x, y, WHITE) - 12 * ScoreAt(b, x, y, BLACK)

\* the cells near a stone, as pairs <<cell number, combined score>>
ScoredCells(b) ==
  {<<k, CombinedScore(b, CellX(k), CellY(k))>> :
     k \in {c \in 0..(NumCells - 1) : NearStone(b, CellX(c), CellY(c))}}

\* cell number k has the greatest score of the pairs, and is the first in
\* row-major order of the cells that have it
FirstOfBest(k, scored) ==
  \E p \in scored :
     /\ p[1] = k
     /\ \A q \in scored : q[2] < p[2] \/ (q[2] = p[2] /\ q[1] >= p[1])

\* C12: the cell calculateMediumMove returns from its heuristic phase has
\* the greatest 1.5 * evaluate(White) - 1.2 * evaluate(Black) of the empty
\* cells with a stone within two columns and rows, and is the first of the
\* cells with that score in row-major order.
HeuristicPicksFirstBest ==
  op = "calculateMediumMove" /\ ret.phase = "best"
    => FirstOfBest(ret.y * BOARD_SIZE + ret.x, ScoredCells(pre))

\* two cells share the greatest score
TiedForBest(scored) ==
  \E p \in scored, q \in scored :
     p[1] # q[1] /\ p[2] = q[2] /\ \A r \in scored : r[2] <= p[2]

\* the heuristic phase has returned on a board where the best score is tied
TieBroken ==
  /\ op = "calculateMediumMove"
  /\ ret.phase = "best"
  /\ TiedForBest(ScoredCells(pre))

\* every cell a call may return, whatever Math.random() gives, is (x,y)
OnlyCell(x, y, r) == \A i \in 1..Len(r.cells) : r.cells[i] = [x |-> x, y |-> y]

\* C13: calculateMediumMove is deterministic: any call on the board of a
\* call that returned (x,y) returns (x,y), and the Math.random() fallback
\* is not taken on a board that has a candidate cell.
MediumDeterministic ==
  op = "calculateMediumMove"
    => /\ OnlyCell(ret.x, ret.y, calculateMediumMove(pre))
       /\ ret.phase = "random"
            => ~\E k \in 0..(NumCells - 1) : NearStone(pre, CellX(k), CellY(k))

\* the evaluation loop has chosen among several candidates
ChosenAmongSeveral ==
  /\ op = "calculateMediumMove"
  /\ ret.phase = "best"
  /\ Cardinality({k \in 0..(NumCells - 1) : NearStone(pre, CellX(k), CellY(k))}) > 1

\* C14: the topMoves list analyzeBoard returns never has more than 5
\* entries, also when the urgency is critical and winning or blocking cells
\* are put in front of the ranked list.
TopMovesAtMostFive ==
  op = "analyzeBoard" => Len(ret.topMoves) <= 5

\* of two entries of a list of moves the earlier has the greater score, or
\* the same score and the earlier cell in row-major order; no cell is
\* listed twice
RankedMoves(moves) ==
  \A i \in 1..Len(moves), j \in 1..Len(moves) :
     i < j =>
       /\ <<moves[i].x, moves[i].y>> # <<moves[j].x, moves[j].y>>
       /\ \/ moves[i].score > moves[j].score
          \/ /\ moves[i].score = moves[j].score
             /\ moves[i].y * BOARD_SIZE + moves[i].x < moves[j].y * BOARD_SIZE + moves[j].x

\* C15: the topMoves analyzeBoard returns are in descending score order,
\* moves of equal score in row-major order of their cells, and no cell
\* appears twice, also after the winning or blocking cells were put in
\* front and the duplicates removed.
TopMovesRanked ==
  op = "analyzeBoard" => RankedMoves(ret.topMoves)

\* analyzeBoard has put two winning cells of White in front of ranked moves
WinsPutInFront ==
  /\ op = "analyzeBoard"
  /\ ret.urgencyLevel = "critical"
  /\ Len(ret.topMoves) > 2
  /\ ret.topMoves[1].score = URGENT_WIN_SCORE
  /\ ret.topMoves[2].score = URGENT_WIN_SCORE
  /\ ret.topMoves[3].score < URGENT_WIN_SCORE
  /\ WinsAt(pre, ret.topMoves[1].x, ret.topMoves[1].y, WHITE)

\* C16: analyzeBoard never returns shouldSurrender true on a board where
\* White has an immediate winning cell.
NoSurrenderWhenWinning ==
  op = "analyzeBoard" /\ CanWin(pre, WHITE) => ~ret.shouldSurrender

\* C17: detectThreats reports a cell in liveFour (liveThree) exactly when
\* the cell is empty and player's stone there completes the live-four
\* template (a live-three template) in a window of some axis that contains
\* the stone; no coordinate is listed twice in a list.
TemplateAt(b, x, y, dx, dy, player, s, template) ==
  \A i \in 1..Len(template) :
     EncodedCell(b, x, y, dx, dy, player, s + i - 1) = template[i]

ProducesTemplate(b, x, y, player, templates) ==
  /\ b[y][x] = EMPTY
  /\ \E d \in 1..Len(directions), t \in templates :
       \E s \in (1 - Len(t))..0 :
          TemplateAt(SetCell(b, x, y, player), x, y, directions[d][1],
                     directions[d][2], player, s, t)

LiveFourTemplates == {<<0, 1, 1, 1, 1, 0>>}

LiveThreeTemplates == {<<0, 1, 1, 1, 0>>, <<0, 1, 0, 1, 1, 0>>, <<0, 1, 1, 0, 1, 0>>}

Listed(list, x, y) == \E i \in 1..Len(list) : list[i].x = x /\ list[i].y = y

NoRepeats(list) ==
  \A i \in 1..Len(list), j \in 1..Len(list) : list[i] = list[j] => i = j

DetectThreatsExact ==
  op = "detectThreats" =>
    /\ NoRepeats(ret.liveFour)
    /\ NoRepeats(ret.liveThree)
    /\ \A x \in Coord, y \in Coord :
         /\ Listed(ret.liveFour, x, y)
              <=> ProducesTemplate(pre, x, y, ret.player, LiveFourTemplates)
         /\ Listed(ret.liveThree, x, y)
              <=> ProducesTemplate(pre, x, y, ret.player, LiveThreeTemplates)

\* the listed cells on which a black stone makes five in a row
WinningThreats(b, threats) ==
  {c \in ThreatSet(threats) :
     b[c[2]][c[1]] = EMPTY /\ FiveThrough(SetCell(b, c[1], c[2], BLACK), c[1], c[2], BLACK)}

LineWindow(b, x, y, d, player, i, n) ==
  [k \in 1..n |->
     LET cx == x + directions[d][1] * (i + k - 6)
         cy == y + directions[d][2] * (i + k - 6)
     IN IF ~InBounds(cx, cy) THEN 2
        ELSE IF b[cy][cx] = player THEN 1
        ELSE IF b[cy][cx] = EMPTY THEN 0
        ELSE 2]

\* the score of the first entry of SHAPE_SCORES, in table order, whose
\* template equals the window; 0 when there is none
FirstEntryScore(w) ==
  LET equal == {j \in 1..Len(SHAPE_SCORES) : SHAPE_SCORES[j].pattern = w}
  IN IF equal = {} THEN 0
     ELSE SHAPE_SCORES[CHOOSE j \in equal : \A k \in equal : j <= k].score

RECURSIVE SumOverOffsets(_, _, _, _, _, _, _)
SumOverOffsets(b, x, y, d, player, n, i) ==
  IF i + n > 11 THEN 0
  ELSE FirstEntryScore(LineWindow(b, x, y, d, player, i, n))
       + SumOverOffsets(b, x, y, d, player, n, i + 1)

\* C19: the score of evaluateShapeInDirection for one axis is the sum, over
\* the 7 offsets of a 5-cell window and the 6 offsets of a 6-cell window of
\* the 11-cell line, of the score of the first table entry of that length
\* equal to the window (0 when none is); windows add independently.
ShapeScoreIsWindowSum ==
  op = "evaluateShapeInDirection" =>
    ret.score = SumOverOffsets(pre, ret.x, ret.y, ret.d, ret.player, 5, 0)
                + SumOverOffsets(pre, ret.x, ret.y, ret.d, ret.player, 6, 0)

\* a line has been scored on which a 5-cell and a 6-cell template match at
\* the same offset and another template matches at an overlapping offset
SameOffsetBothLengths ==
  /\ op = "evaluateShapeInDirection"
  /\ \E i \in 0..5 :
       /\ FirstEntryScore(LineWindow(pre, ret.x, ret.y, ret.d, ret.player, i, 5)) > 0
       /\ FirstEntryScore(LineWindow(pre, ret.x, ret.y, ret.d, ret.player, i, 6)) > 0
       /\ FirstEntryScore(LineWindow(pre, ret.x, ret.y, ret.d, ret.player, i + 1, 5)) > 0
  /\ ret.score > 0

\* the template scores of the four lines through (x,y) with player's stone
\* taken to be on (x,y), whatever the board holds there
RECURSIVE ForcedCentreShapes(_, _, _, _, _)
ForcedCentreShapes(b, x, y, player, d) ==
  IF d > Len(directions) THEN 0
  ELSE SumOverOffsets(SetCell(b, x, y, player), x, y, d, player, 5, 0)
       + SumOverOffsets(SetCell(b, x, y, player), x, y, d, player, 6, 0)
       + ForcedCentreShapes(b, x, y, player, d + 1)

\* a score in hundredths is the given template score plus the bonus of
\* the cell
ScoreIs(score, x, y, shapes) ==
  /\ (score - positionScore(x, y)) % 100 = 0
  /\ (score - positionScore(x, y)) \div 100 = shapes

\* C20 as stated: evaluatePositionAdvanced scores the lines with the centre
\* forced to player's stone, so that its result is the same whether the
\* cell is empty, holds player's stone or holds the opponent's stone.
CentreForced ==
  op = "evaluatePositionAdvanced" =>
    ScoreIs(ret.score, ret.x, ret.y,
            ForcedCentreShapes(pre, ret.x, ret.y, ret.player, 1))

\* C20: evaluatePositionAdvanced reads the centre from the board like every
\* other cell of the line: on a cell that holds player's stone its result
\* is the score of the four lines with player's stone in the centre.
CentreReadFromBoard ==
  op = "evaluatePositionAdvanced" /\ pre[ret.y][ret.x] = ret.player =>
    ScoreIs(ret.score, ret.x, ret.y,
            ForcedCentreShapes(pre, ret.x, ret.y, ret.player, 1))

\* a stone of player that is part of a scoring shape has been evaluated
OwnStoneEvaluated ==
  /\ op = "evaluatePositionAdvanced"
  /\ pre[ret.y][ret.x] = ret.player
  /\ ForcedCentreShapes(pre, ret.x, ret.y, ret.player, 1) > 0
  /\ ret.score > positionScore(ret.x, ret.y)

\* no two successive moves of a history are of the same colour
Alternates(history) ==
  \A i \in 1..(Len(history) - 1) : history[i].player # history[i + 1].player

\* the board b holds the stones a history records and no other
HoldsExactly(b, history) ==
  /\ \A i \in 1..Len(history) : b[history[i].y][history[i].x] = history[i].player
  /\ \A x \in Coord, y \in Coord :
       b[y][x] # EMPTY => \E i \in 1..Len(history) : history[i].x = x /\ history[i].y = y

\* C21: with the local AI, in every state reached through handlePlayerMove,
\* undoMove and resetGame the history alternates between Black and White
\* and the board holds exactly the stones of the history.
HistoryAlternates ==
  game.aiType = "local" =>
    /\ Alternates(game.history)
    /\ HoldsExactly(board, game.history)

\* C22: a move the AI computed for one position is applied only to that
\* position: when makeAIMove resumes on a board that undoMove or resetGame
\* changed since the request was sent, it places no stone.
ReplyOnlyToItsPosition ==
  op = "makeAIMove" /\ pre # ret.result.sent => board = pre

\* what undoMove leaves behind when the history holds two moves or more,
\* whoever made them
UndoneByTwo ==
  /\ ret'.result.accepted
  /\ game'.history = SubSeq(game.history, 1, Len(game.history) - 2)
  /\ HoldsExactly(board', game'.history)
  /\ game'.currentPlayer = BLACK
  /\ ~gameOver'
  /\ game'.winner = Null
  /\ last' = IF Len(game'.history) > 0 THEN game'.history[Len(game'.history)] ELSE NoMove

\* C23: undoMove with two moves or more in the history removes the last
\* two, the AI's move and the player's move before it, replays the rest
\* onto the board and gives the turn to Black in a game that is not over;
\* with fewer moves it returns false and changes nothing.
UndoRemovesOneRound ==
  [][op' = "undoMove" =>
       IF Len(game.history) >= 2
       THEN /\ game.history[Len(game.history)].player = WHITE
            /\ game.history[Len(game.history) - 1].player = BLACK
            /\ UndoneByTwo
       ELSE ~ret'.result.accepted /\ UNCHANGED <<board, gameOver, last, game>>]_vars

\* it is White's turn in a running game and no makeAIMove is under way
AITurnUnattended ==
  game.currentPlayer = WHITE /\ ~gameOver /\ game.pending = <<>>

RejectionChangesNothing ==
  (/\ op' = "handlePlayerMove"
   /\ \/ gameOver
      \/ game.currentPlayer # BLACK
      \/ ~isValidMove(board, ret'.result.x, ret'.result.y))
  => /\ ~ret'.result.accepted
     /\ UNCHANGED <<board, gameOver, last, game>>
     /\ ret'.notes = <<>>

\* C25: handlePlayerMove returns false, leaves board, history,
\* currentPlayer and gameOver unchanged and starts no AI move when the game
\* is over, it is not Black's turn or the cell is off the board or
\* occupied; and once the game is over no stone is added to the board
\* until undoMove or resetGame.
NoStoneAfterGameOver ==
  [][/\ RejectionChangesNothing
     /\ (gameOver /\ op' \notin {"undoMove", "resetGame"}) => board' = board]_vars

\* the calls of the game-over callback made by the last operation
GameOverCalls == {i \in 1..Len(ret.notes) : ret.notes[i].callback = "onGameOver"}

\* C27: when the AI's answer is the surrender sentinel the game is over,
\* no stone was placed, the game-over callback was called exactly once and
\* the recorded winner is the human player, Black.
SurrenderRecordsHuman ==
  (op = "makeAIMove" /\ ret.result.x = -1 /\ ret.result.y = -1) =>
     /\ gameOver
     /\ board = pre
     /\ Cardinality(GameOverCalls) = 1
     /\ game.winner = BLACK

\* the request reached the LLM, whose text held the coordinates of a cell
\* that is off the submitted board or occupied on it
ProposalRejected ==
  /\ op = "calculateAIMove"
  /\ ret.difficulty = "hard" /\ ret.hasKey
  /\ ~ret.answer.threw /\ ret.answer.parsed
  /\ ~isValidMove(pre, ret.answer.x, ret.answer.y)

\* C26: the move of the response is an empty in-bounds cell of the
\* submitted board or, from the analysing worker, the surrender sentinel;
\* a proposed coordinate that is out of range or occupied is not returned
\* and the move of calculateMediumMove is returned instead (after the
\* analysing worker's test for surrender).
WorkerMoveIsPlayable ==
  op = "calculateAIMove" =>
    /\ \/ isValidMove(pre, ret.x, ret.y)
       \/ ret.analysing /\ ret.x = -1 /\ ret.y = -1
    /\ ProposalRejected =>
         /\ ~(ret.x = ret.answer.x /\ ret.y = ret.answer.y)
         /\ [x |-> ret.x, y |-> ret.y] \in
              IF ret.analysing
              THEN calculateLLMMoveAnalysing(pre, [ret.answer EXCEPT !.threw = TRUE])
              ELSE calculateMediumMoveOfWorker(pre)

\* a proposal on an occupied cell was replaced by a playable move
OccupiedProposalReplaced ==
  /\ ProposalRejected
  /\ InBounds(ret.answer.x, ret.answer.y)
  /\ isValidMove(pre, ret.x, ret.y)

\* the cells of b that hold colour
CellsHolding(b, colour) == {c \in Coord \X Coord : b[c[2]][c[1]] = colour}

\* the empty cells of b that have a stone of colour nearer than every stone
\* of other
NearerTo(b, colour, other) ==
  {c \in CellsHolding(b, EMPTY) :
     \E s \in CellsHolding(b, colour) :
        \A t \in CellsHolding(b, other) :
           (s[1] - c[1]) * (s[1] - c[1]) + (s[2] - c[2]) * (s[2] - c[2])
             < (t[1] - c[1]) * (t[1] - c[1]) + (t[2] - c[2]) * (t[2] - c[2])}

\* C29: analyzeControlledArea counts an empty cell for White iff a white
\* stone is strictly nearer to it than every black stone, for Black iff
\* the converse, for neither at equal distances; so white + black is at
\* most the number of empty cells, both are 0 on a board without stones,
\* and when one colour only has stones every empty cell counts for it.
ControlledAreaByNearestStone ==
  op = "analyzeControlledArea" =>
    /\ ret.white = Cardinality(NearerTo(pre, WHITE, BLACK))
    /\ ret.black = Cardinality(NearerTo(pre, BLACK, WHITE))
    /\ ret.white + ret.black <= Cardinality(CellsHolding(pre, EMPTY))
    /\ (CellsHolding(pre, WHITE) = {} /\ CellsHolding(pre, BLACK) = {})
          => ret.white = 0 /\ ret.black = 0
    /\ (CellsHolding(pre, WHITE) = {} /\ CellsHolding(pre, BLACK) # {})
          => ret.white = 0 /\ ret.black = Cardinality(CellsHolding(pre, EMPTY))
    /\ (CellsHolding(pre, BLACK) = {} /\ CellsHolding(pre, WHITE) # {})
          => ret.black = 0 /\ ret.white = Cardinality(CellsHolding(pre, EMPTY))

\* both colours control cells and some empty cell is at equal distances
ContestedArea ==
  /\ op = "analyzeControlledArea"
  /\ ret.white > 0
  /\ ret.black > 0
  /\ ret.white + ret.black < Cardinality(CellsHolding(pre, EMPTY))

\* SHAPE_SCORES of the second copy of the engine
SHAPE_SCORES_Enhanced == <<
  [score |-> 20,       pattern |-> <<0, 1, 1, 0, 0>>],
  [score |-> 20,       pattern |-> <<0, 0, 1, 1, 0>>],
  [score |-> 30,       pattern |-> <<0, 1, 0, 1, 0>>],
  [score |-> 10,       pattern |-> <<2, 1, 1, 0, 0>>],
  [score |-> 10,       pattern |-> <<0, 0, 1, 1, 2>>],
  [score |-> 5000,     pattern |-> <<0, 1, 1, 1, 0>>],
  [score |-> 4500,     pattern |-> <<0, 1, 0, 1, 1, 0>>],
  [score |-> 4500,     pattern |-> <<0, 1, 1, 0, 1, 0>>],
  [score |-> 800,      pattern |-> <<2, 1, 1, 1, 0>>],
  [score |-> 800,      pattern |-> <<0, 1, 1, 1, 2>>],
  [score |-> 600,      pattern |-> <<1, 1, 0, 1, 0>>],
  [score |-> 600,      pattern |-> <<0, 1, 0, 1, 1>>],
  [score |-> 500,      pattern |-> <<1, 0, 1, 1, 0>>],
  [score |-> 50000,    pattern |-> <<0, 1, 1, 1, 1, 0>>],
  [score |-> 8000,     pattern |-> <<1, 1, 1, 1, 0>>],
  [score |-> 8000,     pattern |-> <<0, 1, 1, 1, 1>>],
  [score |-> 7000,     pattern |-> <<1, 1, 0, 1, 1>>],
  [score |-> 7000,     pattern |-> <<1, 0, 1, 1, 1>>],
  [score |-> 6000,     pattern |-> <<1, 1, 1, 0, 1>>],
  [score |-> 80000,    pattern |-> <<1, 1, 1, 1, 0, 1>>],
  [score |-> 10000000, pattern |-> <<1, 1, 1, 1, 1>>] >>

\* every window of 5 and of 6 encoded cells
Windows == [1..5 -> 0..2] \cup [1..6 -> 0..2]

\* the entries of a table that match a window
Hits(table, window) ==
  {j \in 1..Len(table) : matchPattern(window, table[j].pattern)}

\* the templates of a table are pairwise distinct, and no window is matched
\* by two of its entries
OneMatchAtMost(table) ==
  /\ \A i, j \in 1..Len(table) : i # j => table[i].pattern # table[j].pattern
  /\ \A w \in Windows : Cardinality(Hits(table, w)) <= 1

TablesMatchOnce == OneMatchAtMost(SHAPE_SCORES) /\ OneMatchAtMost(SHAPE_SCORES_Enhanced)

\* the score of the last entry of SHAPE_SCORES that matches the window (the
\* first match when the table is reversed), 0 when none does
LastShapeScore ==
  [w \in Windows |->
     IF Hits(SHAPE_SCORES, w) = {} THEN 0
     ELSE SHAPE_SCORES[CHOOSE j \in Hits(SHAPE_SCORES, w) :
                         \A k \in Hits(SHAPE_SCORES, w) : j >= k].score]

\* the window loop of evaluateShapeInDirection over the reversed table
RECURSIVE ReversedWindowScores(_, _)
ReversedWindowScores(line, i) ==
  IF i >= Len(line) - 4 THEN 0
  ELSE (IF i < Len(line) - 5 THEN LastShapeScore[SubSeq(line, i + 1, i + 6)] ELSE 0)
       + LastShapeScore[SubSeq(line, i + 1, i + 5)]
       + ReversedWindowScores(line, i + 1)

\* C28: the templates of each SHAPE_SCORES table are pairwise distinct and
\* at most one entry matches any window, so the value of
\* evaluatePositionAdvanced does not depend on the order of the table: it
\* is the value obtained when the last match is taken instead of the first.
TableOrderIrrelevant ==
  /\ TablesMatchOnce
  /\ op = "evaluatePositionAdvanced" =>
       ret.score =
         100 * ( ReversedWindowScores(EncodedLine(pre, ret.x, ret.y, 1, 0, ret.player), 0)
               + ReversedWindowScores(EncodedLine(pre, ret.x, ret.y, 0, 1, ret.player), 0)
               + ReversedWindowScores(EncodedLine(pre, ret.x, ret.y, 1, 1, ret.player), 0)
               + ReversedWindowScores(EncodedLine(pre, ret.x, ret.y, 1, -1, ret.player), 0) )
         + positionScore(ret.x, ret.y)

\* evaluatePositionAdvanced scored a cell of which some window matched an
\* entry of the table
SomeWindowMatched ==
  /\ op = "evaluatePositionAdvanced"
  /\ ret.score > positionScore(ret.x, ret.y)

\* the line evaluateShapeInDirection would encode on a board continued
\* beyond its edges by stones of player's opponent
PaddedLine(b, x, y, dx, dy, player) ==
  [k \in 1..11 |->
     IF ~InBounds(x + dx * (k - 6), y + dy * (k - 6)) THEN 2
     ELSE IF b[y + dy * (k - 6)][x + dx * (k - 6)] = player THEN 1
     ELSE IF b[y + dy * (k - 6)][x + dx * (k - 6)] = EMPTY THEN 0
     ELSE 2]

\* the 11-cell line of evaluateShapeInDirection: 11 entries for every cell,
\* every position off the board encoded 2, and the score that of the line
\* with an opponent stone at each of these positions
ShapeLineBlocksOffBoard ==
  op = "evaluateShapeInDirection" =>
     /\ Len(EncodedLine(pre, ret.x, ret.y, directions[ret.d][1], directions[ret.d][2],
                        ret.player)) = 11
     /\ \A i \in -5..5 :
          ~InBounds(ret.x + directions[ret.d][1] * i, ret.y + directions[ret.d][2] * i)
             => EncodedLine(pre, ret.x, ret.y, directions[ret.d][1],
                            directions[ret.d][2], ret.player)[i + 6] = 2
     /\ ret.score = WindowScores(PaddedLine(pre, ret.x, ret.y, directions[ret.d][1],
                                            directions[ret.d][2], ret.player), 0)

\* the line of the tactical evaluators: the pattern they test holds a 2 at
\* every position off the board and at every opponent stone
TacticalLineBlocksOffBoard ==
  op = "extractLine" =>
     \A k \in 1..Len(ret.pattern) :
        ( \/ ~InBounds(ret.x + directions[ret.d][1] * (k - 1 - ret.length \div 2),
                       ret.y + directions[ret.d][2] * (k - 1 - ret.length \div 2))
          \/ pre[ret.y + directions[ret.d][2] * (k - 1 - ret.length \div 2)]
                 [ret.x + directions[ret.d][1] * (k - 1 - ret.length \div 2)]
               = Opponent(ret.player) )
        => ret.pattern[k] = 2

\* C30: the line encoded for the evaluation of a cell is complete for every
\* cell of the board, edge and corner cells included: a position outside
\* the 15x15 board is encoded 2 exactly like an opponent stone, the board is
\* only read inside its bounds, and the score of a line at the edge is the
\* score of the same line with an opponent stone at each position off the
\* board.
OffBoardIsBlocked ==
  /\ ShapeLineBlocksOffBoard
  /\ TacticalLineBlocksOffBoard

====
